---- MODULE Spec2Model ----
(***************************************************************************)
(* The Tetris engine of client/src/lib/tetris.ts and the session hook      *)
(* useTetris of client/src/hooks/use-tetris.ts (second copy in the file,   *)
(* lines 425-1202), with the input wiring of client/src/pages/TetrisGame.  *)
(*                                                                         *)
(* A handler of the hook runs against the values its closure captured at   *)
(* the last render (the parameter c of the handler operators) and queues   *)
(* state updates that React applies, in order, at the next render (the     *)
(* parameter s, the state being built).  One action of this module is one  *)
(* handler followed by the render that commits its updates and by the      *)
(* timer effect of lines 1145-1150; the achievement effect of lines        *)
(* 1170-1183 sets state again and is therefore a step of its own, taken    *)
(* before any further handler runs.                                        *)
(***************************************************************************)
EXTENDS Integers, Sequences, FiniteSets, TLC

(***************************************************************************)
(* Bounds of the model.                                                    *)
(***************************************************************************)
\* handlers run per behaviour
MaxSteps == 4
\* how many of the seven kinds generateRandomTetromino draws from (GenOrder)
NumKinds == 2

\* the highest level the period formula is evaluated for
MaxLevel == 12

\* how far outside the board the positions handed to the functions of
\* lib/tetris.ts lie
MaxOutside == 1

(***************************************************************************)
(* lib/tetris.ts                                                           *)
(***************************************************************************)
BOARD_WIDTH == 10
BOARD_HEIGHT == 20

\* a board cell holding null
Empty == "."

T == TRUE
F == FALSE

TETROMINOES ==
  [I |-> [type |-> "I", shape |-> << <<F, F, F, F>>,
                                     <<T, T, T, T>>,
                                     <<F, F, F, F>>,
                                     <<F, F, F, F>> >>],
   J |-> [type |-> "J", shape |-> << <<T, F, F>>,
                                     <<T, T, T>>,
                                     <<F, F, F>> >>],
   L |-> [type |-> "L", shape |-> << <<F, F, T>>,
                                     <<T, T, T>>,
                                     <<F, F, F>> >>],
   O |-> [type |-> "O", shape |-> << <<T, T>>,
                                     <<T, T>> >>],
   S |-> [type |-> "S", shape |-> << <<F, T, T>>,
                                     <<T, T, F>>,
                                     <<F, F, F>> >>],
   T |-> [type |-> "T", shape |-> << <<F, T, F>>,
                                     <<T, T, T>>,
                                     <<F, F, F>> >>],
   Z |-> [type |-> "Z", shape |-> << <<T, T, F>>,
                                     <<F, T, T>>,
                                     <<F, F, F>> >>]]

\* the order in which the bound NumKinds admits the kinds
GenOrder == <<"I", "O", "T", "J", "L", "S", "Z">>

\* the results generateRandomTetromino can return within the bound
generateRandomTetromino ==
  {TETROMINOES[GenOrder[i]] : i \in 1..NumKinds}

\* currentPiece / nextPiece holding null
NoPiece == [type |-> "none", shape |-> <<>>]

EmptyRow == [x \in 1..BOARD_WIDTH |-> Empty]

createEmptyBoard == [y \in 1..BOARD_HEIGHT |-> EmptyRow]

\* Coordinates are 0-based as in the source; sequences are 1-based.
Cell(board, bx, by) == board[by + 1][bx + 1]

\* mutant: only the bounds are tested, not the cells of the board
checkCollision_BoundsOnly(board, shape, position) ==
  \E y \in 0..(Len(shape) - 1) :
    \E x \in 0..(Len(shape[y + 1]) - 1) :
      /\ shape[y + 1][x + 1]
      /\ LET boardX == x + position.x
             boardY == y + position.y
         IN  \/ boardX < 0
             \/ boardX >= BOARD_WIDTH
             \/ boardY < 0
             \/ boardY >= BOARD_HEIGHT

checkCollision(board, shape, position) ==
  \E y \in 0..(Len(shape) - 1) :
    \E x \in 0..(Len(shape[y + 1]) - 1) :
      /\ shape[y + 1][x + 1]
      /\ LET boardX == x + position.x
             boardY == y + position.y
         IN  \/ boardX < 0
             \/ boardX >= BOARD_WIDTH
             \/ boardY < 0
             \/ boardY >= BOARD_HEIGHT
             \/ (boardY >= 0 /\ Cell(board, boardX, boardY) # Empty)

\* mutant: the loop over the rows of the shape stops one row early
mergeTetrominoWithBoard_StopsEarly(board, tetromino, position) ==
  [by \in 1..BOARD_HEIGHT |->
    [bx \in 1..BOARD_WIDTH |->
      LET y == (by - 1) - position.y
          x == (bx - 1) - position.x
      IN  IF /\ y >= 0 /\ y < Len(tetromino.shape) - 1
             /\ x >= 0 /\ x < Len(tetromino.shape[y + 1])
             /\ tetromino.shape[y + 1][x + 1]
          THEN tetromino.type
          ELSE board[by][bx]]]

\* mutant: the shape is read with its indices exchanged
mergeTetrominoWithBoard_Transposed(board, tetromino, position) ==
  [by \in 1..BOARD_HEIGHT |->
    [bx \in 1..BOARD_WIDTH |->
      LET y == (by - 1) - position.y
          x == (bx - 1) - position.x
      IN  IF /\ y >= 0 /\ y < Len(tetromino.shape)
             /\ x >= 0 /\ x < Len(tetromino.shape[y + 1])
             /\ tetromino.shape[x + 1][y + 1]
          THEN tetromino.type
          ELSE board[by][bx]]]

mergeTetrominoWithBoard(board, tetromino, position) ==
  [by \in 1..BOARD_HEIGHT |->
    [bx \in 1..BOARD_WIDTH |->
      LET y == (by - 1) - position.y
          x == (bx - 1) - position.x
      IN  IF /\ y >= 0 /\ y < Len(tetromino.shape)
             /\ x >= 0 /\ x < Len(tetromino.shape[y + 1])
             /\ tetromino.shape[y + 1][x + 1]
          THEN tetromino.type
          ELSE board[by][bx]]]

\* mutant: the last column is not looked at
RowFull_SkipsLastColumn(row) == \A x \in 1..(BOARD_WIDTH - 1) : row[x] # Empty

RowFull(row) == \A x \in 1..BOARD_WIDTH : row[x] # Empty

\* rows above index y (0-based) move down by one, row 0 becomes empty
ShiftDown(board, y) ==
  [r \in 1..BOARD_HEIGHT |->
    IF r = 1 THEN EmptyRow
    ELSE IF r <= y + 1 THEN board[r - 1]
    ELSE board[r]]

\* mutant: the row that received the rows from above is not tested again
RECURSIVE ClearLoop_NoRecheck(_, _, _)
ClearLoop_NoRecheck(newBoard, y, linesCleared) ==
  IF y < 0
  THEN [clearedBoard |-> newBoard, linesCleared |-> linesCleared]
  ELSE IF RowFull(newBoard[y + 1])
       THEN ClearLoop_NoRecheck(ShiftDown(newBoard, y), y - 1, linesCleared + 1)
       ELSE ClearLoop_NoRecheck(newBoard, y - 1, linesCleared)

RECURSIVE ClearLoop(_, _, _)
ClearLoop(newBoard, y, linesCleared) ==
  IF y < 0
  THEN [clearedBoard |-> newBoard, linesCleared |-> linesCleared]
  ELSE IF RowFull(newBoard[y + 1])
       THEN ClearLoop(ShiftDown(newBoard, y), y, linesCleared + 1)
       ELSE ClearLoop(newBoard, y - 1, linesCleared)

clearLines(board) == ClearLoop(board, BOARD_HEIGHT - 1, 0)

\* mutant: the inner loop stops one column early
rotateMatrix_SkipsLastColumn(matrix) ==
  LET n == Len(matrix)
  IN  [r \in 1..n |-> [col \in 1..n |-> IF r = n THEN FALSE ELSE matrix[n + 1 - col][r]]]

rotateMatrix(matrix) ==
  LET n == Len(matrix)
  IN  [r \in 1..n |-> [col \in 1..n |-> matrix[n + 1 - col][r]]]


(***************************************************************************)
(* hooks/use-tetris.ts: the catalog and the persisted store                *)
(***************************************************************************)
\* id, points, unlocked of the catalog entries (name, description and icon
\* are render data)
ACHIEVEMENTS ==
  << [id |-> "cosmic-novice",  points |-> 10,  unlocked |-> FALSE],
     [id |-> "space-explorer", points |-> 25,  unlocked |-> FALSE],
     [id |-> "line-clearer",   points |-> 30,  unlocked |-> FALSE],
     [id |-> "tetris-master",  points |-> 50,  unlocked |-> FALSE],
     [id |-> "galaxy-hero",    points |-> 100, unlocked |-> FALSE],
     [id |-> "speed-runner",   points |-> 75,  unlocked |-> FALSE],
     [id |-> "hard-dropper",   points |-> 35,  unlocked |-> FALSE] >>

\* localStorage.getItem returning null for a numeric key
Absent == -1

\* getItem returning null for 'tetris-achievements' (a stored list is never empty)
AbsentList == <<>>

\* getItem returning null for 'tetris-stats'
AbsentStats ==
  [totalLinesCleared |-> Absent, totalPiecesPlaced |-> Absent, totalHardDrops |-> Absent]

EmptyStore ==
  [highscore |-> Absent, achievements |-> AbsentList, galaxyPoints |-> Absent,
   stats |-> AbsentStats, tetrisCount |-> Absent]

\* findIndex(a => a.id === id); 0 stands for -1 (sequences are 1-based)
findIndex(achievements, id) ==
  IF \E i \in 1..Len(achievements) : achievements[i].id = id
  THEN CHOOSE i \in 1..Len(achievements) :
         /\ achievements[i].id = id
         /\ \A j \in 1..(i - 1) : achievements[j].id # id
  ELSE 0

loadSavedAchievements(store) ==
  IF store.achievements # AbsentList THEN store.achievements ELSE ACHIEVEMENTS

loadSavedGalaxyPoints(store) ==
  IF store.galaxyPoints # Absent THEN store.galaxyPoints ELSE 0

loadSavedStats(store) ==
  IF store.stats # AbsentStats
  THEN store.stats
  ELSE [totalLinesCleared |-> 0, totalPiecesPlaced |-> 0, totalHardDrops |-> 0]

\* parseInt(localStorage.getItem('tetris-highscore') || '0')
loadHighScore(store) ==
  IF store.highscore # Absent THEN store.highscore ELSE 0

\* the initial value of the gameState hook
InitialGameState(store) ==
  [score |-> 0,
   level |-> 1,
   lines |-> 0,
   highScore |-> loadHighScore(store),
   isGameOver |-> FALSE,
   galaxyPoints |-> loadSavedGalaxyPoints(store),
   achievements |-> loadSavedAchievements(store),
   totalLinesCleared |-> loadSavedStats(store).totalLinesCleared,
   totalPiecesPlaced |-> loadSavedStats(store).totalPiecesPlaced,
   totalHardDrops |-> loadSavedStats(store).totalHardDrops]

\* gameLoopRef.current holding null
NoTimer == 0

Max(a, b) == IF a >= b THEN a ELSE b

\* the period an interval is armed with, for a level
getGameSpeed(level) == Max(100, 1000 - (level - 1) * 100)

RECURSIVE SumPoints(_, _, _)
SumPoints(before, after, i) ==
  IF i > Len(before) THEN 0
  ELSE (IF after[i].unlocked /\ ~before[i].unlocked THEN before[i].points ELSE 0)
       + SumPoints(before, after, i + 1)

\* the switch of checkAchievements: the condition under which a locked entry unlocks
Unlocks(id, state) ==
  CASE id = "cosmic-novice"  -> state.score >= 1000
    [] id = "space-explorer" -> state.level >= 5
    [] id = "line-clearer"   -> state.totalLinesCleared >= 50
    [] id = "tetris-master"  -> FALSE
    [] id = "galaxy-hero"    -> state.score >= 10000
    [] id = "speed-runner"   -> state.level >= 10
    [] id = "hard-dropper"   -> state.totalHardDrops >= 50
    [] OTHER                 -> FALSE

\* checkAchievements(state): pointsEarned = 0 stands for the null result
checkAchievements(state) ==
  LET updatedAchievements ==
        [i \in 1..Len(state.achievements) |->
          IF state.achievements[i].unlocked
          THEN state.achievements[i]
          ELSE [state.achievements[i] EXCEPT
                  !.unlocked = Unlocks(state.achievements[i].id, state)]]
      pointsEarned == SumPoints(state.achievements, updatedAchievements, 1)
  IN  [pointsEarned |-> pointsEarned,
       achievements |-> updatedAchievements,
       galaxyPoints |-> state.galaxyPoints + pointsEarned]

\* the two setItem calls checkAchievements makes when it unlocks something
checkAchievementsStore(store, state) ==
  LET r == checkAchievements(state)
  IN  IF r.pointsEarned > 0
      THEN [store EXCEPT !.achievements = r.achievements,
                         !.galaxyPoints = r.galaxyPoints]
      ELSE store

saveStats(store, state) ==
  [store EXCEPT !.stats = [totalLinesCleared |-> state.totalLinesCleared,
                           totalPiecesPlaced |-> state.totalPiecesPlaced,
                           totalHardDrops |-> state.totalHardDrops]]


(***************************************************************************)
(* hooks/use-tetris.ts: the handlers.  c is the closure (the state of the  *)
(* render the handler was created in), s the state its updates build.      *)
(***************************************************************************)
HasPiece(c) == c.currentPiece.type # "none"

\* mutant: the pause flag is not looked at
CanAct_IgnoresPause(c) == c.isGameActive /\ HasPiece(c)

\* the guard shared by softDrop, moveLeft, moveRight, rotate and hardDrop
CanAct(c) == c.isGameActive /\ ~c.isPaused /\ HasPiece(c)

\* x of a newly spawned piece
\* mutant: the spawn column is not centred on the shape's width
SpawnX_FromBoardWidth(piece) == BOARD_WIDTH - (Len(piece.shape[1]) \div 2)

SpawnX(piece) == (BOARD_WIDTH - Len(piece.shape[1])) \div 2

\* mutant: the interval is left armed
handleGameOverNow_TimerLeftArmed(c, s) ==
  LET st1 == IF c.gameState.score > c.gameState.highScore
             THEN [s.localStorage EXCEPT !.highscore = c.gameState.score]
             ELSE s.localStorage
  IN  [s EXCEPT !.localStorage = checkAchievementsStore(st1, c.gameState)]

\* handleGameOver, what runs inside the call: the interval is cleared, the
\* high score is stored, checkAchievements(gameState) stores what it unlocks
handleGameOverNow(c, s) ==
  LET st1 == IF c.gameState.score > c.gameState.highScore
             THEN [s.localStorage EXCEPT !.highscore = c.gameState.score]
             ELSE s.localStorage
  IN  [s EXCEPT !.gameLoopRef = NoTimer,
                !.localStorage = checkAchievementsStore(st1, c.gameState)]

\* mutant: setIsGameActive(false) is left out
handleGameOverQueued_StaysActive(c, s) ==
  LET g1 == IF c.gameState.score > c.gameState.highScore
            THEN [s.gameState EXCEPT !.highScore = c.gameState.score]
            ELSE s.gameState
      achievementUpdates == checkAchievements(c.gameState)
      g2 == IF achievementUpdates.pointsEarned > 0
            THEN [g1 EXCEPT !.isGameOver = TRUE,
                            !.achievements = achievementUpdates.achievements,
                            !.galaxyPoints = achievementUpdates.galaxyPoints]
            ELSE [g1 EXCEPT !.isGameOver = TRUE]
  IN  [s EXCEPT !.gameState = g2,
                !.localStorage = saveStats(s.localStorage, g2)]

\* mutant: the stats of the handler's closure are the ones saved
handleGameOverQueued_SavesClosureStats(c, s) ==
  LET g1 == IF c.gameState.score > c.gameState.highScore
            THEN [s.gameState EXCEPT !.highScore = c.gameState.score]
            ELSE s.gameState
      achievementUpdates == checkAchievements(c.gameState)
      g2 == IF achievementUpdates.pointsEarned > 0
            THEN [g1 EXCEPT !.isGameOver = TRUE,
                            !.achievements = achievementUpdates.achievements,
                            !.galaxyPoints = achievementUpdates.galaxyPoints]
            ELSE [g1 EXCEPT !.isGameOver = TRUE]
  IN  [s EXCEPT !.gameState = g2,
                !.localStorage = saveStats(s.localStorage, c.gameState),
                !.isGameActive = FALSE]

\* handleGameOver, the updates it queues: highScore, then isGameOver with the
\* achievement updates (saveStats runs inside that updater), then isGameActive
handleGameOverQueued(c, s) ==
  LET g1 == IF c.gameState.score > c.gameState.highScore
            THEN [s.gameState EXCEPT !.highScore = c.gameState.score]
            ELSE s.gameState
      achievementUpdates == checkAchievements(c.gameState)
      g2 == IF achievementUpdates.pointsEarned > 0
            THEN [g1 EXCEPT !.isGameOver = TRUE,
                            !.achievements = achievementUpdates.achievements,
                            !.galaxyPoints = achievementUpdates.galaxyPoints]
            ELSE [g1 EXCEPT !.isGameOver = TRUE]
  IN  [s EXCEPT !.gameState = g2,
                !.localStorage = saveStats(s.localStorage, g2),
                !.isGameActive = FALSE]

\* mutant: four lines score like three lines and one
LinePoints_FourAsThreePlusOne(linesCleared, level) ==
  CASE linesCleared = 1 -> 100 * level
    [] linesCleared = 2 -> 300 * level
    [] linesCleared = 3 -> 500 * level
    [] linesCleared = 4 -> 600 * level
    [] OTHER            -> 0

\* mutant: the switch has no case for four lines
LinePoints_NoCaseFour(linesCleared, level) ==
  CASE linesCleared = 1 -> 100 * level
    [] linesCleared = 2 -> 300 * level
    [] linesCleared = 3 -> 500 * level
    [] OTHER            -> 0

\* the score switch of handlePieceLanded (no default branch)
LinePoints(linesCleared, level) ==
  CASE linesCleared = 1 -> 100 * level
    [] linesCleared = 2 -> 300 * level
    [] linesCleared = 3 -> 500 * level
    [] linesCleared = 4 -> 800 * level
    [] OTHER            -> 0

\* mutant: the level counts the completed tens of lines, without the 1
LevelOf_FromZero(lines) == lines \div 10

\* level from the lines of the running game
LevelOf(lines) == (lines \div 10) + 1

\* mutant: a landing that clears no line returns the state as it was
LandedUpdate_CountsOnlyWithLines(s, linesCleared) ==
  LET prev == s.gameState
      newLines == prev.lines + linesCleared
  IN  IF linesCleared > 0
      THEN [s EXCEPT
              !.gameState =
                 [prev EXCEPT
                    !.score = prev.score + LinePoints(linesCleared, prev.level),
                    !.lines = newLines,
                    !.level = LevelOf(newLines),
                    !.totalLinesCleared = prev.totalLinesCleared + linesCleared,
                    !.totalPiecesPlaced = prev.totalPiecesPlaced + 1]]
      ELSE s

\* mutant: the achievement waits for a sixth four-line clear
LandedUpdate_UnlocksAtSix(s, linesCleared) ==
  LET prev == s.gameState
      totalPiecesPlaced == prev.totalPiecesPlaced + 1
      newLines == prev.lines + linesCleared
      tetrisMasterIndex == findIndex(prev.achievements, "tetris-master")
      counts == /\ linesCleared = 4
                /\ tetrisMasterIndex # 0
                /\ ~prev.achievements[tetrisMasterIndex].unlocked
      tetrisCount == IF s.localStorage.tetrisCount # Absent
                     THEN s.localStorage.tetrisCount ELSE 0
      newTetrisCount == tetrisCount + 1
      unlock == counts /\ newTetrisCount >= 6
      updatedAchievements ==
        IF unlock
        THEN [prev.achievements EXCEPT ![tetrisMasterIndex].unlocked = TRUE]
        ELSE prev.achievements
      galaxyPointsEarned ==
        IF unlock THEN prev.achievements[tetrisMasterIndex].points ELSE 0
      st1 == IF counts
             THEN [s.localStorage EXCEPT !.tetrisCount = newTetrisCount]
             ELSE s.localStorage
      st2 == IF unlock
             THEN [st1 EXCEPT !.achievements = updatedAchievements]
             ELSE st1
  IN  IF linesCleared > 0
      THEN [s EXCEPT
              !.gameState =
                 [prev EXCEPT
                    !.score = prev.score + LinePoints(linesCleared, prev.level),
                    !.lines = newLines,
                    !.level = LevelOf(newLines),
                    !.totalLinesCleared = prev.totalLinesCleared + linesCleared,
                    !.totalPiecesPlaced = totalPiecesPlaced,
                    !.achievements = updatedAchievements,
                    !.galaxyPoints = prev.galaxyPoints + galaxyPointsEarned],
              !.localStorage = st2]
      ELSE [s EXCEPT !.gameState.totalPiecesPlaced = totalPiecesPlaced]

\* the updater handlePieceLanded passes to setGameState (lines 776-856), with
\* the localStorage writes it makes
LandedUpdate(s, linesCleared) ==
  LET prev == s.gameState
      totalPiecesPlaced == prev.totalPiecesPlaced + 1
      newLines == prev.lines + linesCleared
      tetrisMasterIndex == findIndex(prev.achievements, "tetris-master")
      counts == /\ linesCleared = 4
                /\ tetrisMasterIndex # 0
                /\ ~prev.achievements[tetrisMasterIndex].unlocked
      tetrisCount == IF s.localStorage.tetrisCount # Absent
                     THEN s.localStorage.tetrisCount ELSE 0
      newTetrisCount == tetrisCount + 1
      unlock == counts /\ newTetrisCount >= 5
      updatedAchievements ==
        IF unlock
        THEN [prev.achievements EXCEPT ![tetrisMasterIndex].unlocked = TRUE]
        ELSE prev.achievements
      galaxyPointsEarned ==
        IF unlock THEN prev.achievements[tetrisMasterIndex].points ELSE 0
      st1 == IF counts
             THEN [s.localStorage EXCEPT !.tetrisCount = newTetrisCount]
             ELSE s.localStorage
      st2 == IF unlock
             THEN [st1 EXCEPT !.achievements = updatedAchievements]
             ELSE st1
  IN  IF linesCleared > 0
      THEN [s EXCEPT
              !.gameState =
                 [prev EXCEPT
                    !.score = prev.score + LinePoints(linesCleared, prev.level),
                    !.lines = newLines,
                    !.level = LevelOf(newLines),
                    !.totalLinesCleared = prev.totalLinesCleared + linesCleared,
                    !.totalPiecesPlaced = totalPiecesPlaced,
                    !.achievements = updatedAchievements,
                    !.galaxyPoints = prev.galaxyPoints + galaxyPointsEarned],
              !.localStorage = st2]
      ELSE [s EXCEPT !.gameState.totalPiecesPlaced = totalPiecesPlaced]

\* mutant: the merged board is set with its full rows left in
LandedBoard_Uncleared(c) ==
  LET newBoard == mergeTetrominoWithBoard(c.gameBoard, c.currentPiece, c.currentPosition)
  IN  [clearLines(newBoard) EXCEPT !.clearedBoard = newBoard]

\* the board handlePieceLanded sets: the closure's piece merged at the
\* closure's position, then cleared
LandedBoard(c) ==
  clearLines(mergeTetrominoWithBoard(c.gameBoard, c.currentPiece, c.currentPosition))

\* the game-over test of handlePieceLanded (line 869)
SpawnCollides(board, piece) ==
  checkCollision(board, piece.shape, [x |-> SpawnX(piece), y |-> 0])

\* mutant: the freshly generated piece is made the active piece
handlePieceLanded_PromotesFresh(c, s, rnd) ==
  IF ~HasPiece(c) THEN s
  ELSE
    LET cl == LandedBoard(c)
        newPiece == c.nextPiece
        over == newPiece.type # "none" /\ SpawnCollides(cl.clearedBoard, newPiece)
        s1 == [s EXCEPT !.gameBoard = cl.clearedBoard]
        s2 == IF over THEN handleGameOverNow(c, s1) ELSE s1
        s3 == LandedUpdate(s2, cl.linesCleared)
    IN  IF newPiece.type = "none" THEN s3
        ELSE IF over THEN handleGameOverQueued(c, s3)
        ELSE [s3 EXCEPT !.currentPiece = rnd,
                        !.currentPosition = [x |-> SpawnX(rnd), y |-> 0],
                        !.nextPiece = rnd]

\* rnd is the result of the generateRandomTetromino() call of line 883
handlePieceLanded(c, s, rnd) ==
  IF ~HasPiece(c) THEN s
  ELSE
    LET cl == LandedBoard(c)
        newPiece == c.nextPiece
        over == newPiece.type # "none" /\ SpawnCollides(cl.clearedBoard, newPiece)
        s1 == [s EXCEPT !.gameBoard = cl.clearedBoard]
        s2 == IF over THEN handleGameOverNow(c, s1) ELSE s1
        s3 == LandedUpdate(s2, cl.linesCleared)
    IN  IF newPiece.type = "none" THEN s3
        ELSE IF over THEN handleGameOverQueued(c, s3)
        ELSE [s3 EXCEPT !.currentPiece = newPiece,
                        !.currentPosition = [x |-> SpawnX(newPiece), y |-> 0],
                        !.nextPiece = rnd]

Below(position) == [x |-> position.x, y |-> position.y + 1]

\* mutant: the point is awarded on the landing branch as well
softDrop_PointOnLanding(c, s, rnd) ==
  IF ~CanAct(c) THEN s
  ELSE IF ~checkCollision(c.gameBoard, c.currentPiece.shape, Below(c.currentPosition))
       THEN [s EXCEPT !.currentPosition.y = c.currentPosition.y + 1,
                      !.gameState.score = s.gameState.score + 1]
       ELSE handlePieceLanded(c, [s EXCEPT !.gameState.score = @ + 1], rnd)

softDrop(c, s, rnd) ==
  IF ~CanAct(c) THEN s
  ELSE IF ~checkCollision(c.gameBoard, c.currentPiece.shape, Below(c.currentPosition))
       THEN [s EXCEPT !.currentPosition.y = c.currentPosition.y + 1,
                      !.gameState.score = s.gameState.score + 1]
       ELSE handlePieceLanded(c, s, rnd)

\* mutant: a piece that cannot fall is left where it is
gameLoop_LeavesPieceResting(c, s, rnd) ==
  IF ~c.isGameActive \/ c.isPaused THEN s
  ELSE IF checkCollision(c.gameBoard, c.currentPiece.shape, Below(c.currentPosition))
       THEN s
       ELSE softDrop(c, s, rnd)

gameLoop(c, s, rnd) ==
  IF ~c.isGameActive \/ c.isPaused THEN s ELSE softDrop(c, s, rnd)

\* mutant: the shifted position is not tested
MoveBy_Unchecked(c, s, dx) ==
  IF ~CanAct(c) THEN s
  ELSE [s EXCEPT !.currentPosition.x = c.currentPosition.x + dx]

\* moveLeft is MoveBy(c, s, -1), moveRight is MoveBy(c, s, 1)
MoveBy(c, s, dx) ==
  IF ~CanAct(c) THEN s
  ELSE LET newX == c.currentPosition.x + dx
       IN  IF ~checkCollision(c.gameBoard, c.currentPiece.shape,
                              [x |-> newX, y |-> c.currentPosition.y])
           THEN [s EXCEPT !.currentPosition.x = newX]
           ELSE s

\* mutant: both kicks to the right come before the kicks to the left
KickOffsets_RightThenLeft == <<0, 1, 2, -1, -2>>

\* the offsets rotate tries, in the order it tries them: in place, then for
\* offset = 1, 2 the kick right and the kick left
KickOffsets == <<0, 1, -1, 2, -2>>

\* mutant: when no candidate fits the piece is turned where it stands
rotate_TurnsWhenBlocked(c, s) ==
  IF ~CanAct(c) THEN s
  ELSE
    LET rotatedShape == rotateMatrix(c.currentPiece.shape)
        Fits(i) == ~checkCollision(c.gameBoard, rotatedShape,
                                   [x |-> c.currentPosition.x + KickOffsets[i],
                                    y |-> c.currentPosition.y])
    IN  IF \E i \in 1..Len(KickOffsets) : Fits(i)
        THEN LET k == CHOOSE i \in 1..Len(KickOffsets) :
                        Fits(i) /\ \A j \in 1..(i - 1) : ~Fits(j)
             IN  [s EXCEPT !.currentPiece.shape = rotatedShape,
                           !.currentPosition.x = s.currentPosition.x + KickOffsets[k]]
        ELSE [s EXCEPT !.currentPiece.shape = rotatedShape]

rotate(c, s) ==
  IF ~CanAct(c) THEN s
  ELSE
    LET rotatedShape == rotateMatrix(c.currentPiece.shape)
        Fits(i) == ~checkCollision(c.gameBoard, rotatedShape,
                                   [x |-> c.currentPosition.x + KickOffsets[i],
                                    y |-> c.currentPosition.y])
    IN  IF \E i \in 1..Len(KickOffsets) : Fits(i)
        THEN LET k == CHOOSE i \in 1..Len(KickOffsets) :
                        Fits(i) /\ \A j \in 1..(i - 1) : ~Fits(j)
             IN  [s EXCEPT !.currentPiece.shape = rotatedShape,
                           !.currentPosition.x = s.currentPosition.x + KickOffsets[k]]
        ELSE s

\* the while loop of hardDrop: the number of collision-free one-row descents
RECURSIVE DropLoop(_, _, _, _)
DropLoop(board, shape, position, dropDistance) ==
  IF ~checkCollision(board, shape, Below(position))
  THEN DropLoop(board, shape, Below(position), dropDistance + 1)
  ELSE dropDistance

DropDistance(c) == DropLoop(c.gameBoard, c.currentPiece.shape, c.currentPosition, 0)

\* hardDrop from line 996 on: the fall distance is at least 1
hardDropFall(c, s, rnd) ==
  LET dropDistance == DropDistance(c)
      newTotalHardDrops == c.gameState.totalHardDrops + 1
      hardDropperIndex == findIndex(c.gameState.achievements, "hard-dropper")
      unlock == /\ newTotalHardDrops >= 50
                /\ hardDropperIndex # 0
                /\ ~c.gameState.achievements[hardDropperIndex].unlocked
      \* the entry is changed in place: the closure's list sees the change
      updatedAchievements ==
        IF unlock
        THEN [c.gameState.achievements EXCEPT ![hardDropperIndex].unlocked = TRUE]
        ELSE c.gameState.achievements
      galaxyPointsEarned ==
        IF unlock THEN c.gameState.achievements[hardDropperIndex].points ELSE 0
      c2 == [c EXCEPT !.gameState.achievements = updatedAchievements]
      s1 == [s EXCEPT
               !.currentPosition = [x |-> c.currentPosition.x,
                                    y |-> c.currentPosition.y + dropDistance],
               !.localStorage.achievements =
                  IF unlock THEN updatedAchievements ELSE @,
               !.gameState.score = @ + dropDistance * 2,
               !.gameState.totalHardDrops = newTotalHardDrops,
               !.gameState.achievements = updatedAchievements,
               !.gameState.galaxyPoints = @ + galaxyPointsEarned]
  IN  handlePieceLanded(c2, s1, rnd)

\* mutant: the fall distance 0 returns without landing the piece
hardDrop_ReturnsAtZero(c, s, rnd) ==
  IF ~CanAct(c) THEN s
  ELSE IF DropDistance(c) = 0
       THEN s
       ELSE hardDropFall(c, s, rnd)

\* mutant: the fall distance 0 is not told apart
hardDrop_NoZeroCase(c, s, rnd) ==
  IF ~CanAct(c) THEN s
  ELSE hardDropFall(c, s, rnd)

hardDrop(c, s, rnd) ==
  IF ~CanAct(c) THEN s
  ELSE IF DropDistance(c) = 0
       THEN handlePieceLanded(c, s, rnd)
       ELSE hardDropFall(c, s, rnd)

\* mutant: the new game starts from a zeroed state
resetGameState_ZeroesTotals(prev) ==
  [prev EXCEPT !.score = 0, !.level = 1, !.lines = 0, !.isGameOver = FALSE,
               !.totalLinesCleared = 0, !.totalPiecesPlaced = 0,
               !.totalHardDrops = 0]

\* mutant: a new game starts from the locked list
resetGameState_LocksAchievements(prev) ==
  [prev EXCEPT !.score = 0, !.level = 1, !.lines = 0, !.isGameOver = FALSE,
               !.achievements = ACHIEVEMENTS]

\* the updater of lines 1069-1081
resetGameState(prev) ==
  [prev EXCEPT !.score = 0, !.level = 1, !.lines = 0, !.isGameOver = FALSE]

\* mutant: the tetris counter is carried into the new game
initializeGame_KeepsTetrisCount(c, s, firstPiece, next) ==
  [s EXCEPT
     !.gameBoard = createEmptyBoard,
     !.currentPiece = firstPiece,
     !.currentPosition = [x |-> SpawnX(firstPiece), y |-> 0],
     !.nextPiece = next,
     !.gameState = resetGameState(@),
     !.isGameActive = TRUE,
     !.isPaused = FALSE]

\* firstPiece and next are the two generateRandomTetromino() results
initializeGame(c, s, firstPiece, next) ==
  LET tetrisMasterIndex == findIndex(c.gameState.achievements, "tetris-master")
      reset == /\ tetrisMasterIndex # 0
               /\ ~c.gameState.achievements[tetrisMasterIndex].unlocked
  IN  [s EXCEPT
         !.gameBoard = createEmptyBoard,
         !.currentPiece = firstPiece,
         !.currentPosition = [x |-> SpawnX(firstPiece), y |-> 0],
         !.nextPiece = next,
         !.localStorage.tetrisCount = IF reset THEN 0 ELSE @,
         !.gameState = resetGameState(@),
         !.isGameActive = TRUE,
         !.isPaused = FALSE]

startGame(c, s, firstPiece, next) ==
  LET s1 == IF c.gameState.isGameOver \/ ~c.isGameActive
            THEN [initializeGame(c, s, firstPiece, next) EXCEPT !.isGameActive = TRUE]
            ELSE [s EXCEPT !.isPaused = FALSE]
  IN  [s1 EXCEPT !.gameLoopRef = getGameSpeed(c.gameState.level)]

\* mutant: the interval is not cleared
pauseGame_TimerLeftArmed(c, s) ==
  IF ~c.isGameActive THEN s
  ELSE [s EXCEPT !.isPaused = TRUE]

pauseGame(c, s) ==
  IF ~c.isGameActive THEN s
  ELSE [s EXCEPT !.isPaused = TRUE, !.gameLoopRef = NoTimer]

\* mutant: a running game is not restarted
restartGame_OnlyWhenStopped(c, s, firstPiece, next) ==
  IF c.isGameActive /\ ~c.gameState.isGameOver THEN s
  ELSE [initializeGame(c, [s EXCEPT !.gameLoopRef = NoTimer], firstPiece, next)
          EXCEPT !.gameLoopRef = getGameSpeed(c.gameState.level)]

restartGame(c, s, firstPiece, next) ==
  [initializeGame(c, [s EXCEPT !.gameLoopRef = NoTimer], firstPiece, next)
     EXCEPT !.gameLoopRef = getGameSpeed(c.gameState.level)]

\* mutant: the effect leaves the armed interval as it is
timerEffect_KeepsPeriod(s) == s

\* the effect of lines 1145-1150, run after the render that follows a handler
timerEffect(s) ==
  IF s.isGameActive /\ ~s.isPaused /\ s.gameLoopRef # NoTimer
  THEN [s EXCEPT !.gameLoopRef = getGameSpeed(s.gameState.level)]
  ELSE s

\* the effect of lines 1170-1183 has something to set
achievementEffectPending(s) ==
  /\ s.isGameActive
  /\ ~s.isPaused
  /\ checkAchievements(s.gameState).pointsEarned > 0

\* mutant: the effect sets the list and leaves the total
achievementEffect_KeepsPoints(s) ==
  LET achievementUpdates == checkAchievements(s.gameState)
  IN  [s EXCEPT !.localStorage = checkAchievementsStore(@, s.gameState),
                !.gameState.achievements = achievementUpdates.achievements]

achievementEffect(s) ==
  LET achievementUpdates == checkAchievements(s.gameState)
  IN  [s EXCEPT !.localStorage = checkAchievementsStore(@, s.gameState),
                !.gameState.achievements = achievementUpdates.achievements,
                !.gameState.galaxyPoints = achievementUpdates.galaxyPoints]


(***************************************************************************)
(* The session as a state machine                                          *)
(***************************************************************************)
VARIABLES
  gameState,        \* score, level, lines, highScore, isGameOver, galaxyPoints,
                    \* achievements, totalLinesCleared, totalPiecesPlaced, totalHardDrops
  gameBoard,        \* BOARD_HEIGHT rows of BOARD_WIDTH cells, Empty or a kind
  currentPiece,     \* [type, shape] or NoPiece
  currentPosition,  \* [x, y]
  nextPiece,        \* [type, shape] or NoPiece
  isGameActive,
  isPaused,
  gameLoopRef,      \* NoTimer, or the period of the armed interval
  localStorage,     \* the persisted keys
  ev,               \* history: what the last step was and did
  steps             \* history: handlers run so far

progVars == <<gameState, gameBoard, currentPiece, currentPosition, nextPiece,
              isGameActive, isPaused, gameLoopRef, localStorage>>

vars == <<gameState, gameBoard, currentPiece, currentPosition, nextPiece,
          isGameActive, isPaused, gameLoopRef, localStorage, ev, steps>>

\* the current state, as the record the handler operators work on
Cur ==
  [gameState |-> gameState, gameBoard |-> gameBoard, currentPiece |-> currentPiece,
   currentPosition |-> currentPosition, nextPiece |-> nextPiece,
   isGameActive |-> isGameActive, isPaused |-> isPaused,
   gameLoopRef |-> gameLoopRef, localStorage |-> localStorage]

\* the render that commits a handler's updates
Commit(s) ==
  /\ gameState' = s.gameState
  /\ gameBoard' = s.gameBoard
  /\ currentPiece' = s.currentPiece
  /\ currentPosition' = s.currentPosition
  /\ nextPiece' = s.nextPiece
  /\ isGameActive' = s.isGameActive
  /\ isPaused' = s.isPaused
  /\ gameLoopRef' = s.gameLoopRef
  /\ localStorage' = s.localStorage

\* Idle, Active, Paused or GameOver, from the flags
Phase(c) ==
  IF c.isGameActive THEN (IF c.isPaused THEN "paused" ELSE "active")
  ELSE (IF c.gameState.isGameOver THEN "over" ELSE "idle")

\* the history record of a step: the handler (op), the phase it ran in (from),
\* whether it landed the piece, whether that landing ended the game, the
\* fall distance of a hard drop, the lines the landing cleared, the change of
\* position.x, and for a rotation the offsets in -2..2 at which the rotated
\* shape was collision-free, and whether the step cleared the interval and
\* set a new one
NoEvent == [op |-> "none", from |-> "idle", landed |-> FALSE, over |-> FALSE,
            dropDistance |-> 0, linesCleared |-> 0, dx |-> 0, fits |-> {},
            rearmed |-> FALSE]

Event(op) == [NoEvent EXCEPT !.op = op, !.from = Phase(Cur)]

\* what a landing of the current piece does, for the history variable
LandingEvent(op, dist) ==
  [Event(op) EXCEPT
     !.landed = TRUE,
     !.over = /\ nextPiece.type # "none"
              /\ SpawnCollides(LandedBoard(Cur).clearedBoard, nextPiece),
     !.dropDistance = dist,
     !.linesCleared = LandedBoard(Cur).linesCleared]

SoftDropEvent(op) ==
  IF CanAct(Cur) /\ checkCollision(gameBoard, currentPiece.shape, Below(currentPosition))
  THEN LandingEvent(op, 0)
  ELSE Event(op)

HardDropEvent ==
  IF CanAct(Cur)
  THEN LandingEvent("hardDrop", DropDistance(Cur))
  ELSE Event("hardDrop")

RotateEvent ==
  [Event("rotate") EXCEPT
     !.fits = IF CanAct(Cur)
              THEN {d \in -2..2 :
                      ~checkCollision(gameBoard, rotateMatrix(currentPiece.shape),
                                      [x |-> currentPosition.x + d,
                                       y |-> currentPosition.y])}
              ELSE {}]

\* a handler may run: the bound allows it and no effect is waiting to run
Ready == steps < MaxSteps /\ ~achievementEffectPending(Cur)

\* the handler set a state of the hook, so that a render follows in which
\* gameLoop is a new function: its dependencies (line 908) reach, through
\* softDrop (902) and handlePieceLanded (886), every state but the store.  A
\* rotation that fits sets currentPiece to a new object even when the shape
\* is the same after the turn.
Rendered(c, s, event) ==
  \/ <<s.gameState, s.gameBoard, s.currentPiece, s.currentPosition, s.nextPiece,
       s.isGameActive, s.isPaused>>
       # <<c.gameState, c.gameBoard, c.currentPiece, c.currentPosition, c.nextPiece,
           c.isGameActive, c.isPaused>>
  \/ event.op = "rotate" /\ event.fits # {}

\* the step sets a new interval: startGame and restartGame do (lines 1113,
\* 1141), and so does the timer effect when it runs after a render that
\* changed one of its dependencies (gameLoop among them)
timerRearmed(c, s, event) ==
  \/ event.op \in {"startGame", "restartGame"}
  \/ /\ Rendered(c, s, event)
     /\ s.isGameActive /\ ~s.isPaused /\ s.gameLoopRef # NoTimer

\* one handler, the render after it and the timer effect
Handle(s, event) ==
  /\ Ready
  /\ \E committed \in {timerEffect(s)} : Commit(committed)
  /\ ev' = [event EXCEPT !.dx = currentPosition'.x - currentPosition.x,
                         !.rearmed = timerRearmed(Cur, s, event)]
  /\ steps' = steps + 1

(***************************************************************************)
(* States the session can be in when observation starts: the mounted hook  *)
(* over an empty store, and six positions of running games.                *)
(***************************************************************************)
IVertical == [type |-> "I", shape |-> rotateMatrix(TETROMINOES.I.shape)]

\* rows 16..19 filled in columns 0..8 by nine upright I pieces
FourRowsBoard ==
  [y \in 1..BOARD_HEIGHT |->
    IF y >= BOARD_HEIGHT - 3
    THEN [x \in 1..BOARD_WIDTH |-> IF x < BOARD_WIDTH THEN "I" ELSE Empty]
    ELSE EmptyRow]

\* one O piece resting on the floor in columns 5..6
PillarBoard ==
  [y \in 1..BOARD_HEIGHT |->
    [x \in 1..BOARD_WIDTH |->
      IF y >= BOARD_HEIGHT - 1 /\ x \in {6, 7} THEN "O" ELSE Empty]]

\* eighteen flat I pieces stacked in columns 3..6, rows 2..19
TowerBoard ==
  [y \in 1..BOARD_HEIGHT |->
    [x \in 1..BOARD_WIDTH |->
      IF y >= 3 /\ x \in 4..7 THEN "I" ELSE Empty]]

NoviceUnlocked == [ACHIEVEMENTS EXCEPT ![1].unlocked = TRUE]

\* a running first game of the session, before any piece has come to rest
FreshGame ==
  [gameState |-> InitialGameState(EmptyStore),
   gameBoard |-> createEmptyBoard,
   currentPiece |-> TETROMINOES.I,
   currentPosition |-> [x |-> SpawnX(TETROMINOES.I), y |-> 0],
   nextPiece |-> TETROMINOES.O,
   isGameActive |-> TRUE,
   isPaused |-> FALSE,
   gameLoopRef |-> getGameSpeed(1),
   localStorage |-> [EmptyStore EXCEPT !.tetrisCount = 0]]

Mounted ==
  [FreshGame EXCEPT !.currentPiece = NoPiece,
                    !.currentPosition = [x |-> 0, y |-> 0],
                    !.nextPiece = NoPiece,
                    !.isGameActive = FALSE,
                    !.gameLoopRef = NoTimer,
                    !.localStorage = EmptyStore]

\* first game, 8 lines cleared one at a time, an upright I three rows above
\* the slot that completes four rows
FourRowsLevel1 ==
  [FreshGame EXCEPT
     !.gameBoard = FourRowsBoard,
     !.currentPiece = IVertical,
     !.currentPosition = [x |-> 7, y |-> 13],
     !.gameState.score = 1300,
     !.gameState.lines = 8,
     !.gameState.totalLinesCleared = 8,
     !.gameState.totalPiecesPlaced = 29,
     !.gameState.achievements = NoviceUnlocked,
     !.gameState.galaxyPoints = 10,
     !.localStorage.achievements = NoviceUnlocked,
     !.localStorage.galaxyPoints = 10]

\* a later game of a player with 28 lines from earlier games: level 3, the
\* upright I resting in the slot
FourRowsLevel3 ==
  [FourRowsLevel1 EXCEPT
     !.currentPosition = [x |-> 7, y |-> 16],
     !.nextPiece = TETROMINOES.I,
     !.gameState.score = 4500,
     !.gameState.level = 3,
     !.gameState.lines = 20,
     !.gameState.highScore = 5000,
     !.gameState.totalLinesCleared = 48,
     !.gameState.totalPiecesPlaced = 150,
     !.gameLoopRef = getGameSpeed(3),
     !.localStorage.highscore = 5000,
     !.localStorage.stats = [totalLinesCleared |-> 28, totalPiecesPlaced |-> 91,
                             totalHardDrops |-> 0]]

\* first game, second piece: a flat I one row above the O it will rest on
Pillar ==
  [FreshGame EXCEPT
     !.gameBoard = PillarBoard,
     !.currentPosition = [x |-> 3, y |-> 15],
     !.gameState.score = 33,
     !.gameState.totalPiecesPlaced = 1]

\* first game, nineteenth piece: an O spawned on top of a full-height stack
Tower ==
  [FreshGame EXCEPT
     !.gameBoard = TowerBoard,
     !.currentPiece = TETROMINOES.O,
     !.currentPosition = [x |-> SpawnX(TETROMINOES.O), y |-> 0],
     !.nextPiece = TETROMINOES.I,
     !.gameState.score = 171,
     !.gameState.totalPiecesPlaced = 18]

\* seventeen flat I pieces stacked in columns 3..6, rows 3..19
BrinkBoard ==
  [y \in 1..BOARD_HEIGHT |->
    [x \in 1..BOARD_WIDTH |->
      IF y >= 4 /\ x \in 4..7 THEN "I" ELSE Empty]]

\* a later game of a player with 49 hard drops in earlier games, none in this
\* one: the eighteenth piece, an O with one row to fall, two points short of
\* the first score threshold
Brink ==
  [FreshGame EXCEPT
     !.gameBoard = BrinkBoard,
     !.currentPiece = TETROMINOES.O,
     !.currentPosition = [x |-> SpawnX(TETROMINOES.O), y |-> 0],
     !.nextPiece = TETROMINOES.I,
     !.gameState.score = 998,
     !.gameState.highScore = 800,
     !.gameState.totalPiecesPlaced = 77,
     !.gameState.totalHardDrops = 49,
     !.localStorage.highscore = 800,
     !.localStorage.stats = [totalLinesCleared |-> 0, totalPiecesPlaced |-> 60,
                             totalHardDrops |-> 49]]

\* a later game of a player with 10 lines from an earlier game: level 4, 36
\* lines, four of the clears four lines at once, the upright I resting in the
\* slot, a T previewed
FourRowsLevel4 ==
  [FourRowsLevel1 EXCEPT
     !.currentPosition = [x |-> 7, y |-> 16],
     !.nextPiece = TETROMINOES.T,
     !.gameState.score = 9000,
     !.gameState.level = 4,
     !.gameState.lines = 36,
     !.gameState.highScore = 1500,
     !.gameState.totalLinesCleared = 46,
     !.gameState.totalPiecesPlaced = 140,
     !.gameLoopRef = getGameSpeed(4),
     !.localStorage.highscore = 1500,
     !.localStorage.tetrisCount = 4,
     !.localStorage.stats = [totalLinesCleared |-> 10, totalPiecesPlaced |-> 41,
                             totalHardDrops |-> 0]]

StartStates ==
  {Mounted, FourRowsLevel1, FourRowsLevel3, FourRowsLevel4, Pillar, Tower, Brink}

Init ==
  /\ \E s \in StartStates : /\ gameState = s.gameState
                            /\ gameBoard = s.gameBoard
                            /\ currentPiece = s.currentPiece
                            /\ currentPosition = s.currentPosition
                            /\ nextPiece = s.nextPiece
                            /\ isGameActive = s.isGameActive
                            /\ isPaused = s.isPaused
                            /\ gameLoopRef = s.gameLoopRef
                            /\ localStorage = s.localStorage
  /\ ev = NoEvent
  /\ steps = 0

(***************************************************************************)
(* Actions                                                                 *)
(***************************************************************************)
\* the generateRandomTetromino() call of line 883 is made only by a landing
\* that promotes the next piece
Generated(event) ==
  IF event.landed /\ ~event.over /\ nextPiece.type # "none"
  THEN generateRandomTetromino
  ELSE {NoPiece}

\* the armed interval fires gameLoop
Tick ==
  /\ gameLoopRef # NoTimer
  /\ Ready
  /\ LET event == SoftDropEvent("tick")
     IN  \E rnd \in Generated(event) : Handle(gameLoop(Cur, Cur, rnd), event)

\* ArrowDown, or the on-screen button
SoftDrop ==
  /\ Ready
  /\ LET event == SoftDropEvent("softDrop")
     IN  \E rnd \in Generated(event) : Handle(softDrop(Cur, Cur, rnd), event)

MoveLeft == Handle(MoveBy(Cur, Cur, -1), Event("moveLeft"))

MoveRight == Handle(MoveBy(Cur, Cur, 1), Event("moveRight"))

Rotate == Handle(rotate(Cur, Cur), RotateEvent)

HardDrop ==
  /\ Ready
  /\ LET event == HardDropEvent
     IN  \E rnd \in Generated(event) : Handle(hardDrop(Cur, Cur, rnd), event)

\* togglePause while idle, over or paused
StartGame ==
  /\ ~isGameActive \/ isPaused
  /\ Ready
  /\ \E firstPiece \in generateRandomTetromino, next \in generateRandomTetromino :
       Handle(startGame(Cur, Cur, firstPiece, next), Event("startGame"))

\* togglePause while running
PauseGame ==
  /\ isGameActive /\ ~isPaused
  /\ Handle(pauseGame(Cur, Cur), Event("pauseGame"))

\* the RESTART button
RestartGame ==
  /\ Ready
  /\ \E firstPiece \in generateRandomTetromino, next \in generateRandomTetromino :
       Handle(restartGame(Cur, Cur, firstPiece, next), Event("restartGame"))

\* the achievement effect, run after a render that left it something to set
AchievementEffect ==
  /\ achievementEffectPending(Cur)
  /\ Commit(achievementEffect(Cur))
  /\ ev' = [Event("achievementEffect") EXCEPT !.rearmed = gameLoopRef # NoTimer]
  /\ steps' = steps

Next ==
  \/ Tick
  \/ SoftDrop
  \/ MoveLeft
  \/ MoveRight
  \/ Rotate
  \/ HardDrop
  \/ StartGame
  \/ PauseGame
  \/ RestartGame
  \/ AchievementEffect

Spec == Init /\ [][Next]_vars

(***************************************************************************)
(* The session with a key handled right after a tick, before the render    *)
(* that follows the tick: the interval callback and the keydown listener   *)
(* are both closures of the last committed render (the listener of         *)
(* TetrisGame.tsx and the interval are replaced only in effects), so the   *)
(* key's handler reads the state the tick's handler read, and its updates  *)
(* are queued behind the tick's.                                           *)
(***************************************************************************)

\* gameLoop, then softDrop of ArrowDown on the same render
TickThenSoftDrop ==
  /\ gameLoopRef # NoTimer
  /\ Ready
  /\ LET event == SoftDropEvent("tick+softDrop")
     IN  \E rnd1 \in Generated(event), rnd2 \in Generated(event) :
           Handle(softDrop(Cur, gameLoop(Cur, Cur, rnd1), rnd2), event)

\* gameLoop, then hardDrop of Space on the same render
TickThenHardDrop ==
  /\ gameLoopRef # NoTimer
  /\ Ready
  /\ LET event == [HardDropEvent EXCEPT !.op = "tick+hardDrop"]
     IN  \E rnd1 \in Generated(event), rnd2 \in Generated(event) :
           Handle(hardDrop(Cur, gameLoop(Cur, Cur, rnd1), rnd2), event)

StaleNext ==
  \/ Next
  \/ TickThenSoftDrop
  \/ TickThenHardDrop

StaleSpec == Init /\ [][StaleNext]_vars

(***************************************************************************)
(* The session left to its interval: no key, no button.  The interval      *)
(* fires for as long as it is armed and an effect runs after the render    *)
(* that left it something to do, hence the weak fairness of both; the      *)
(* walk starts on stacks tall enough to be played out in every order of    *)
(* generated pieces.                                                       *)
(***************************************************************************)
\* eleven flat I pieces stacked in columns 3..6, rows 9..19
HalfBoard ==
  [y \in 1..BOARD_HEIGHT |->
    [x \in 1..BOARD_WIDTH |->
      IF y >= 10 /\ x \in 4..7 THEN "I" ELSE Empty]]

\* first game, twelfth piece, just spawned
HalfStack ==
  [FreshGame EXCEPT
     !.gameBoard = HalfBoard,
     !.gameState.score = 981,
     !.gameState.totalPiecesPlaced = 11]

\* twelve flat I pieces stacked in columns 3..6 under a row that lacks only
\* those columns, two more cells beside the stack
TroughBoard ==
  [y \in 1..BOARD_HEIGHT |->
    [x \in 1..BOARD_WIDTH |->
      IF y >= 9 /\ x \in 4..7 THEN "I"
      ELSE IF y = 8 /\ x \notin 4..7 THEN "O"
      ELSE IF y = 9 /\ x \in 1..2 THEN "O"
      ELSE Empty]]

\* first game, fifteenth piece, just spawned: a flat I that falls into the
\* row and completes it
Trough ==
  [FreshGame EXCEPT
     !.gameBoard = TroughBoard,
     !.gameState.score = 150,
     !.gameState.totalPiecesPlaced = 14]

UnattendedStates == {HalfStack, Trough, Tower, Brink}

UnattendedInit ==
  /\ \E s \in UnattendedStates : /\ gameState = s.gameState
                                  /\ gameBoard = s.gameBoard
                                  /\ currentPiece = s.currentPiece
                                  /\ currentPosition = s.currentPosition
                                  /\ nextPiece = s.nextPiece
                                  /\ isGameActive = s.isGameActive
                                  /\ isPaused = s.isPaused
                                  /\ gameLoopRef = s.gameLoopRef
                                  /\ localStorage = s.localStorage
  /\ ev = NoEvent
  /\ steps = 0

\* the armed interval fires gameLoop; the handlers run are not counted
UnattendedTick ==
  /\ gameLoopRef # NoTimer
  /\ ~achievementEffectPending(Cur)
  /\ LET event == SoftDropEvent("tick")
     IN  \E rnd \in Generated(event) :
           \E s \in {gameLoop(Cur, Cur, rnd)} :
             /\ \E committed \in {timerEffect(s)} : Commit(committed)
             /\ ev' = [event EXCEPT !.rearmed = timerRearmed(Cur, s, event)]
             /\ steps' = steps

UnattendedNext ==
  \/ UnattendedTick
  \/ AchievementEffect

UnattendedSpec ==
  /\ UnattendedInit
  /\ [][UnattendedNext]_vars
  /\ WF_vars(UnattendedTick)
  /\ WF_vars(AchievementEffect)


(***************************************************************************)
(* The functions of lib/tetris.ts called on their own.  The caller holds   *)
(* a board (gameBoard), a tetromino (currentPiece) and a position          *)
(* (currentPosition); steps counts the quarter turns rotateMatrix has      *)
(* given the tetromino, ev is the last call and what it returned.  The     *)
(* functions copy what they change (lines 133, 156, 183), so a call        *)
(* leaves its arguments as they were.                                      *)
(***************************************************************************)
\* a stack that fills the board: the rows of full are fully occupied, every
\* other row has one hole; kinds vary along and across the rows
StackBoard(full) ==
  [y \in 1..BOARD_HEIGHT |->
    [x \in 1..BOARD_WIDTH |->
      IF (y - 1) \in full \/ x # ((y - 1) % BOARD_WIDTH) + 1
      THEN GenOrder[((x + y) % Len(GenOrder)) + 1]
      ELSE Empty]]

\* boards handed to clearLines: no full row, one, two adjacent, three with a
\* gap, four adjacent, the top row, the top rows with a gap
StackBoards ==
  {StackBoard(full) : full \in {{}, {BOARD_HEIGHT - 1},
                                {BOARD_HEIGHT - 2, BOARD_HEIGHT - 1},
                                {BOARD_HEIGHT - 4, BOARD_HEIGHT - 3, BOARD_HEIGHT - 1},
                                (BOARD_HEIGHT - 4)..(BOARD_HEIGHT - 1),
                                {0}, {0, 1, 3}}}

\* boards handed to checkCollision and mergeTetrominoWithBoard
OpenBoards == {createEmptyBoard, FourRowsBoard, PillarBoard, TowerBoard}

\* positions around the left edge, the middle, the right edge, the top and
\* the bottom of the board
LibPositions ==
  {[x |-> x, y |-> y] :
     x \in ((0 - MaxOutside)..0) \cup {3} \cup ((BOARD_WIDTH - 4)..(BOARD_WIDTH - 1)),
     y \in ((0 - MaxOutside)..0) \cup ((BOARD_HEIGHT - 4)..(BOARD_HEIGHT - 1))}

Kinds == DOMAIN TETROMINOES

\* the last call: its name and result; taken says that the caller's board is
\* a board clearLines returned, removed how many rows that call had cleared
NoCall == [op |-> "none", result |-> FALSE, taken |-> FALSE, removed |-> 0]

LibInit ==
  /\ \/ \E b \in OpenBoards, k \in Kinds, p \in LibPositions :
          /\ gameBoard = b
          /\ currentPiece = TETROMINOES[k]
          /\ currentPosition = p
     \/ \E b \in StackBoards :
          /\ gameBoard = b
          /\ currentPiece = TETROMINOES.O
          /\ currentPosition = [x |-> SpawnX(TETROMINOES.O), y |-> 0]
  /\ gameState = Mounted.gameState
  /\ nextPiece = Mounted.nextPiece
  /\ isGameActive = Mounted.isGameActive
  /\ isPaused = Mounted.isPaused
  /\ gameLoopRef = Mounted.gameLoopRef
  /\ localStorage = Mounted.localStorage
  /\ ev = NoCall
  /\ steps = 0

\* a call that returns result and leaves every argument as it was
Returns(op, result) ==
  /\ ev' = [ev EXCEPT !.op = op, !.result = result]
  /\ UNCHANGED <<progVars, steps>>

CallCheckCollision ==
  Returns("checkCollision",
          checkCollision(gameBoard, currentPiece.shape, currentPosition))

CallMergeTetrominoWithBoard ==
  Returns("mergeTetrominoWithBoard",
          mergeTetrominoWithBoard(gameBoard, currentPiece, currentPosition))

CallClearLines ==
  Returns("clearLines", clearLines(gameBoard))

\* the caller takes the board clearLines returned as its board, as
\* handlePieceLanded does (line 769)
TakeBoard ==
  /\ ev.op = "clearLines"
  /\ gameBoard' = ev.result.clearedBoard
  /\ ev' = [op |-> "setGameBoard", result |-> FALSE, taken |-> TRUE,
            removed |-> ev.result.linesCleared]
  /\ UNCHANGED <<gameState, currentPiece, currentPosition, nextPiece,
                 isGameActive, isPaused, gameLoopRef, localStorage, steps>>

\* the caller turns its tetromino, as rotate does (line 936)
CallRotateMatrix ==
  /\ steps < 4
  /\ currentPiece' = [currentPiece EXCEPT !.shape = rotateMatrix(currentPiece.shape)]
  /\ ev' = [ev EXCEPT !.op = "rotateMatrix",
                      !.result = rotateMatrix(currentPiece.shape)]
  /\ steps' = steps + 1
  /\ UNCHANGED <<gameState, gameBoard, currentPosition, nextPiece,
                 isGameActive, isPaused, gameLoopRef, localStorage>>

LibNext ==
  \/ CallCheckCollision
  \/ CallMergeTetrominoWithBoard
  \/ CallClearLines
  \/ CallRotateMatrix
  \/ TakeBoard

LibSpec == LibInit /\ [][LibNext]_vars


(***************************************************************************)
(* The mount of the hook over stored text.  localStorage holds, per key,   *)
(* what getItem returns: null or a string.  The strings of the two numeric *)
(* keys are sequences of characters, read by parseInt; the strings of the  *)
(* two JSON keys are read by JSON.parse.  gameState is the value the       *)
(* useState initializer of lines 594-605 computes, its fields JavaScript   *)
(* values; ev.op says how far the mount has come.                          *)
(***************************************************************************)
\* JavaScript values: numbers (NaN among them), null, undefined, objects,
\* arrays, and the TypeError a property read of null throws
Num(n) == [type |-> "number", nan |-> FALSE, value |-> n]

NaN == [type |-> "number", nan |-> TRUE, value |-> 0]

JSNull == [type |-> "null"]

Undefined == [type |-> "undefined"]

TypeError == [type |-> "TypeError"]

JSObject(fields) == [type |-> "object", fields |-> fields]

JSArray(items) == [type |-> "array", items |-> items]

\* value.name
Property(value, name) ==
  IF value.type \in {"null", "undefined"} THEN TypeError
  ELSE IF value.type = "object" /\ name \in DOMAIN value.fields
       THEN value.fields[name]
       ELSE Undefined

\* getItem of a numeric key: null, or the stored string as its characters
NoItem == [null |-> TRUE, text |-> <<>>]

\* getItem of a JSON key: null, or the stored string
NoJsonItem == [null |-> TRUE, text |-> ""]

Item(text) == [null |-> FALSE, text |-> text]

\* if (item): null and the empty string are falsy
Truthy(item, emptyString) == ~item.null /\ item.text # emptyString

DecimalDigits == <<"0", "1", "2", "3", "4", "5", "6", "7", "8", "9">>

IsDigit(ch) == \E d \in 1..Len(DecimalDigits) : DecimalDigits[d] = ch

DigitValue(ch) == (CHOOSE d \in 1..Len(DecimalDigits) : DecimalDigits[d] = ch) - 1

RECURSIVE SkipSpace(_, _)
SkipSpace(text, i) ==
  IF i <= Len(text) /\ text[i] = " " THEN SkipSpace(text, i + 1) ELSE i

RECURSIVE DigitsValue(_, _, _)
DigitsValue(text, i, acc) ==
  IF i > Len(text) \/ ~IsDigit(text[i]) THEN acc
  ELSE DigitsValue(text, i + 1, acc * 10 + DigitValue(text[i]))

\* parseInt(text): leading blanks, a sign, then the longest run of decimal
\* digits; NaN when there is no digit there.  It never throws.
parseInt(text) ==
  LET i == SkipSpace(text, 1)
      signed == i <= Len(text) /\ text[i] \in {"-", "+"}
      j == IF signed THEN i + 1 ELSE i
  IN  IF j > Len(text) \/ ~IsDigit(text[j]) THEN NaN
      ELSE IF signed /\ text[i] = "-"
           THEN Num(0 - DigitsValue(text, j, 0))
           ELSE Num(DigitsValue(text, j, 0))

\* the list the session of start state FourRowsLevel1 has stored
StoredAchievements == JSArray(NoviceUnlocked)

StoredStats ==
  JSObject([totalLinesCleared |-> Num(28), totalPiecesPlaced |-> Num(91),
            totalHardDrops |-> Num(3)])

\* JSON.parse on the strings a store is drawn from: ok is false when it throws
\* SyntaxError
JSONparse(text) ==
  CASE text = "[{\"id\":\"cosmic-novice\",\"unlocked\":true}, ...]"
         -> [ok |-> TRUE, value |-> StoredAchievements]
    [] text = "{\"totalLinesCleared\":28,\"totalPiecesPlaced\":91,\"totalHardDrops\":3}"
         -> [ok |-> TRUE, value |-> StoredStats]
    [] text = "{\"totalLinesCleared\":28}"
         -> [ok |-> TRUE, value |-> JSObject([totalLinesCleared |-> Num(28)])]
    [] text = "{\"score\":7}"
         -> [ok |-> TRUE, value |-> JSObject([score |-> Num(7)])]
    [] text = "[]"   -> [ok |-> TRUE, value |-> JSArray(<<>>)]
    [] text = "null" -> [ok |-> TRUE, value |-> JSNull]
    [] text = "7"    -> [ok |-> TRUE, value |-> Num(7)]
    [] OTHER         -> [ok |-> FALSE, value |-> Undefined]

\* lines 553-563
loadSavedAchievementsText(savedAchievements) ==
  IF Truthy(savedAchievements, "") /\ JSONparse(savedAchievements.text).ok
  THEN JSONparse(savedAchievements.text).value
  ELSE JSArray(ACHIEVEMENTS)

\* lines 565-575
loadSavedGalaxyPointsText(savedPoints) ==
  IF Truthy(savedPoints, <<>>) THEN parseInt(savedPoints.text) ELSE Num(0)

\* lines 577-591
loadSavedStatsText(savedStats) ==
  IF Truthy(savedStats, "") /\ JSONparse(savedStats.text).ok
  THEN JSONparse(savedStats.text).value
  ELSE JSObject([totalLinesCleared |-> Num(0), totalPiecesPlaced |-> Num(0),
                 totalHardDrops |-> Num(0)])

\* parseInt(localStorage.getItem('tetris-highscore') || '0'), line 598
loadHighScoreText(storedHighScore) ==
  IF Truthy(storedHighScore, <<>>)
  THEN parseInt(storedHighScore.text)
  ELSE parseInt(<<"0">>)

\* the initializer of lines 594-605; a TypeError field is a render that throws
useStateInitial(store) ==
  [score |-> Num(0),
   level |-> Num(1),
   lines |-> Num(0),
   highScore |-> loadHighScoreText(store.highscore),
   isGameOver |-> FALSE,
   galaxyPoints |-> loadSavedGalaxyPointsText(store.galaxyPoints),
   achievements |-> loadSavedAchievementsText(store.achievements),
   totalLinesCleared |-> Property(loadSavedStatsText(store.stats), "totalLinesCleared"),
   totalPiecesPlaced |-> Property(loadSavedStatsText(store.stats), "totalPiecesPlaced"),
   totalHardDrops |-> Property(loadSavedStatsText(store.stats), "totalHardDrops")]

\* what the two numeric keys may hold
NumberItems ==
  {NoItem} \cup
  {Item(text) : text \in {<<>>, <<"0">>, <<"4", "2">>, <<"1", "5", "0", "0">>,
                          <<"4", "2", "p", "x">>, <<"a", "b", "c">>,
                          <<"N", "a", "N">>, <<"-", "7">>, <<" ", "9">>}}

\* what 'tetris-achievements' may hold
AchievementItems ==
  {NoJsonItem} \cup
  {Item(text) : text \in {"", "[{\"id\":\"cosmic-novice\",\"unlocked\":true}, ...]",
                          "[{\"id\":\"cosmic-nov", "null", "{\"score\":7}", "7"}}

\* what 'tetris-stats' may hold
StatsItems ==
  {NoJsonItem} \cup
  {Item(text) : text \in {"", "{\"totalLinesCleared\":28,\"totalPiecesPlaced\":91,\"totalHardDrops\":3}",
                          "{\"totalLinesCleared\":28}", "{\"totalLinesCl", "null",
                          "{\"score\":7}", "[]"}}

Unmounted == [mounted |-> FALSE]

LoadInit ==
  /\ \E h \in NumberItems, g \in NumberItems, a \in AchievementItems, s \in StatsItems :
       localStorage = [highscore |-> h, galaxyPoints |-> g, achievements |-> a,
                       stats |-> s]
  /\ gameState = Unmounted
  /\ gameBoard = Mounted.gameBoard
  /\ currentPiece = Mounted.currentPiece
  /\ currentPosition = Mounted.currentPosition
  /\ nextPiece = Mounted.nextPiece
  /\ isGameActive = Mounted.isGameActive
  /\ isPaused = Mounted.isPaused
  /\ gameLoopRef = Mounted.gameLoopRef
  /\ ev = [op |-> "none"]
  /\ steps = 0

\* the first render
Mount ==
  /\ ev.op = "none"
  /\ gameState' = useStateInitial(localStorage)
  /\ ev' = [op |-> "mount"]
  /\ UNCHANGED <<gameBoard, currentPiece, currentPosition, nextPiece, isGameActive,
                 isPaused, gameLoopRef, localStorage, steps>>

\* the effect of lines 1162-1167, run once after the first render
LoadHighScoreEffect ==
  /\ ev.op = "mount"
  /\ gameState' = IF Truthy(localStorage.highscore, <<>>)
                  THEN [gameState EXCEPT !.highScore = parseInt(localStorage.highscore.text)]
                  ELSE gameState
  /\ ev' = [op |-> "loadHighScore"]
  /\ UNCHANGED <<gameBoard, currentPiece, currentPosition, nextPiece, isGameActive,
                 isPaused, gameLoopRef, localStorage, steps>>

LoadNext ==
  \/ Mount
  \/ LoadHighScoreEffect

LoadSpec == LoadInit /\ [][LoadNext]_vars


(***************************************************************************)
(* Properties                                                              *)
(***************************************************************************)
\* the scoring table of the specification, by lines cleared
ScoreTable == <<100, 300, 500, 800>>

TablePoints(n, level) == IF n = 0 THEN 0 ELSE ScoreTable[n] * level

\* the handler op ran on an active, unpaused session with a piece
Acted(op) == ev'.op = op /\ CanAct(Cur)

\* the board after merging the current piece at a position and clearing
BoardLandedAt(position) ==
  clearLines(mergeTetrominoWithBoard(gameBoard, currentPiece, position))

\* the next piece was promoted to its spawn position
Promoted ==
  /\ currentPiece' = nextPiece
  /\ currentPosition' = [x |-> SpawnX(nextPiece), y |-> 0]

\* C1: a hard drop in Active state from (x, y) stamps the piece onto the board
\* at (x, y + d), d the largest number of collision-free one-row descents, at
\* no other row, and adds exactly 2 * d to the score (besides the points of
\* the lines that landing clears).
C1_HardDropStampsAtLowest ==
  [][Acted("hardDrop") =>
       LET d == DropDistance(Cur)
           lowest == [x |-> currentPosition.x, y |-> currentPosition.y + d]
       IN  /\ gameBoard' = BoardLandedAt(lowest).clearedBoard
           /\ gameState'.score = gameState.score + 2 * d
                + TablePoints(BoardLandedAt(lowest).linesCleared, gameState.level)]_vars

\* C2: when at a landing the next piece collides at its spawn position on the
\* line-cleared board, that same step ends the game: isGameOver is true,
\* isGameActive false, the timer cancelled, the colliding piece is not made
\* the active piece; and in the GameOver state no timer is armed and no
\* input moves, turns or lands anything.
C2_SpawnCollisionEndsGame ==
  /\ [][(ev'.landed /\ nextPiece.type # "none" /\ SpawnCollides(gameBoard', nextPiece)) =>
          /\ gameState'.isGameOver
          /\ ~isGameActive'
          /\ gameLoopRef' = NoTimer
          /\ currentPiece' = currentPiece
          /\ nextPiece' = nextPiece]_vars
  /\ [][(Phase(Cur) = "over"
           /\ ev'.op \in {"tick", "softDrop", "moveLeft", "moveRight", "rotate", "hardDrop"}) =>
          UNCHANGED progVars]_vars
  /\ [](Phase(Cur) = "over" => gameLoopRef = NoTimer)

C2_Witness == ev.landed /\ ev.over /\ Phase(Cur) = "over"

\* C3: when the session goes to GameOver, highScore afterwards is the larger
\* of highScore before and the final score, every point of the ending landing
\* included, and the persisted high score reads back as the same value.
C3_HighScoreIsMaxOfFinalScore ==
  [][(ev'.landed /\ ev'.over) =>
       /\ gameState'.highScore = Max(gameState.highScore, gameState'.score)
       /\ loadHighScore(localStorage') = gameState'.highScore]_vars

\* C4 as claimed: a hard drop at fall distance 0 merges once, counts one piece
\* placed, adds no drop points and promotes the next piece.
C4_ZeroDropAlwaysPromotes ==
  [][(Acted("hardDrop") /\ DropDistance(Cur) = 0) =>
       /\ gameBoard' = BoardLandedAt(currentPosition).clearedBoard
       /\ gameState'.totalPiecesPlaced = gameState.totalPiecesPlaced + 1
       /\ gameState'.score = gameState.score
            + TablePoints(BoardLandedAt(currentPosition).linesCleared, gameState.level)
       /\ Promoted]_vars

\* C4 amended: a hard drop at fall distance 0 merges the piece once where it
\* is, counts one piece placed and adds no drop points; it promotes the next
\* piece once unless that piece collides at its spawn position, and then the
\* game ends with no promotion.
C4_ZeroDropLandsOnce ==
  [][(Acted("hardDrop") /\ DropDistance(Cur) = 0) =>
       /\ gameBoard' = BoardLandedAt(currentPosition).clearedBoard
       /\ gameState'.totalPiecesPlaced = gameState.totalPiecesPlaced + 1
       /\ gameState'.score = gameState.score
            + TablePoints(BoardLandedAt(currentPosition).linesCleared, gameState.level)
       /\ IF SpawnCollides(gameBoard', nextPiece)
          THEN /\ gameState'.isGameOver
               /\ currentPiece' = currentPiece
               /\ nextPiece' = nextPiece
          ELSE /\ Promoted
               /\ ~gameState'.isGameOver]_vars

C4_Witness ==
  ev.op = "hardDrop" /\ ev.landed /\ ev.dropDistance = 0 /\ ~ev.over

\* C5 as claimed: every hard drop in Active state adds 1 to totalHardDrops.
C5_EveryHardDropCounts ==
  [][Acted("hardDrop") =>
       gameState'.totalHardDrops = gameState.totalHardDrops + 1]_vars

\* C5 amended: a hard drop in Active state adds exactly 1 to totalHardDrops
\* when its fall distance is at least 1 and leaves it unchanged when the fall
\* distance is 0.
C5_HardDropCountsWhenFalling ==
  [][Acted("hardDrop") =>
       gameState'.totalHardDrops =
         gameState.totalHardDrops + (IF DropDistance(Cur) >= 1 THEN 1 ELSE 0)]_vars

C5_Witness ==
  ev.op = "hardDrop" /\ ev.landed /\ ev.dropDistance >= 1 /\ gameState.totalHardDrops = 1


C7_LineScoreByTableAndOldLevel ==
  [][ev'.landed =>
       /\ ev'.linesCleared \in 0..4
       /\ gameState'.score - gameState.score - 2 * ev'.dropDistance
            = TablePoints(ev'.linesCleared, gameState.level)
       /\ (ev'.linesCleared = 4 /\ gameState.level = 1 /\ ev'.dropDistance = 0
             => gameState'.score = gameState.score + 800)
       /\ (ev'.linesCleared = 4 /\ gameState.level = 3 /\ ev'.dropDistance = 0
             => gameState'.score = gameState.score + 2400)]_vars

\* four lines cleared by a landing at level 1 that raises the level to 2
C7_Witness ==
  ev.landed /\ ev.linesCleared = 4 /\ gameState.lines = 12 /\ gameState.level = 2

\* C8: a soft drop, by the player or by the tick, in Active state with the
\* piece at (x, y): if the piece does not collide at (x, y + 1) the position
\* becomes (x, y + 1), the score grows by exactly 1 and the board is unchanged;
\* if it collides the piece lands at (x, y) and no soft-drop point is awarded.
C8_SoftDropStepsOrLands ==
  [][(Acted("softDrop") \/ Acted("tick")) =>
       IF ~checkCollision(gameBoard, currentPiece.shape, Below(currentPosition))
       THEN /\ currentPosition' = Below(currentPosition)
            /\ gameState'.score = gameState.score + 1
            /\ gameBoard' = gameBoard
            /\ ~ev'.landed
       ELSE /\ ev'.landed
            /\ gameBoard' = BoardLandedAt(currentPosition).clearedBoard
            /\ gameState'.totalPiecesPlaced = gameState.totalPiecesPlaced + 1
            /\ gameState'.score = gameState.score
                 + TablePoints(BoardLandedAt(currentPosition).linesCleared,
                               gameState.level)]_vars

C8_Witness ==
  ev.op = "tick" /\ ev.from = "active" /\ ev.landed /\ ev.linesCleared > 0

\* C9: a move-left (move-right) input in Active state changes position.x by
\* exactly -1 (+1) if and only if the piece does not collide at the shifted
\* position and otherwise changes nothing; position.y, the shape, the board,
\* the next piece, score, level and lines are unchanged in both cases.
MovesBy(dx) ==
  LET free == ~checkCollision(gameBoard, currentPiece.shape,
                              [x |-> currentPosition.x + dx, y |-> currentPosition.y])
  IN  /\ currentPosition'.x = currentPosition.x + (IF free THEN dx ELSE 0)
      /\ currentPosition'.y = currentPosition.y
      /\ UNCHANGED <<currentPiece, gameBoard, nextPiece>>
      /\ gameState'.score = gameState.score
      /\ gameState'.level = gameState.level
      /\ gameState'.lines = gameState.lines
      /\ (~free => UNCHANGED progVars)

C9_MoveShiftsOnlyX ==
  /\ [][Acted("moveLeft") => MovesBy(-1)]_vars
  /\ [][Acted("moveRight") => MovesBy(1)]_vars

\* a move-left that was blocked
C9_Witness ==
  ev.op = "moveLeft" /\ ev.from = "active" /\ ev.dx = 0 /\ ~ev.landed

\* the outcome of a rotation that tries the rotated shape at the offsets of
\* order, first fit wins, nothing changes when none fits
RotatesInOrder(order) ==
  LET rotatedShape == rotateMatrix(currentPiece.shape)
      Free(i) == ~checkCollision(gameBoard, rotatedShape,
                                 [x |-> currentPosition.x + order[i],
                                  y |-> currentPosition.y])
      first == {i \in 1..Len(order) : Free(i) /\ \A j \in 1..(i - 1) : ~Free(j)}
  IN  IF first = {}
      THEN UNCHANGED progVars
      ELSE \E i \in first :
             /\ currentPiece' = [currentPiece EXCEPT !.shape = rotatedShape]
             /\ currentPosition' = [currentPosition EXCEPT !.x = @ + order[i]]

\* C10 as claimed: rotate tries unchanged x, x+1, x+2, x-1, x-2 in this order
\* and applies the first that does not collide.
C10_KicksRightTwiceFirst ==
  [][Acted("rotate") => RotatesInOrder(<<0, 1, 2, -1, -2>>)]_vars

\* C10 amended: rotate tries unchanged x, x+1, x-1, x+2, x-2 in this order and
\* applies the first that does not collide; so when the in-place and x+1
\* candidates collide and both x+2 and x-1 are free, the piece ends at x-1.
C10_KicksAlternateRightLeft ==
  /\ [][Acted("rotate") => RotatesInOrder(<<0, 1, -1, 2, -2>>)]_vars
  /\ [][(Acted("rotate") /\ ev'.fits \cap {0, 1, -1, 2} = {-1, 2}) =>
          currentPosition'.x = currentPosition.x - 1]_vars

C10_Witness ==
  /\ ev.op = "rotate"
  /\ ev.from = "active"
  /\ ev.fits \cap {0, 1, -1, 2} = {-1, 2}
  /\ ev.dx = -1

\* C11: a rotate input in Active state never changes the piece kind,
\* position.y, the board, the next piece, score, level or lines; and when all
\* five wall-kick candidates collide it changes nothing at all.
C11_RotateKeepsAllButShapeAndX ==
  [][Acted("rotate") =>
       /\ currentPiece'.type = currentPiece.type
       /\ currentPosition'.y = currentPosition.y
       /\ UNCHANGED <<gameBoard, nextPiece>>
       /\ gameState'.score = gameState.score
       /\ gameState'.level = gameState.level
       /\ gameState'.lines = gameState.lines
       /\ (ev'.fits = {} => UNCHANGED progVars)]_vars

\* a rotation in Active state that found all five candidates colliding
C11_Witness ==
  ev.op = "rotate" /\ ev.from = "active" /\ ev.fits = {} /\ HasPiece(Cur)

\* the board cells <<x, y>> the occupied cells of shape map to at position
CellsAt(shape, position) ==
  {<<x + position.x, y + position.y>> :
     <<x, y>> \in {c \in (0..(Len(shape) - 1)) \X (0..(Len(shape) - 1)) :
                     shape[c[2] + 1][c[1] + 1]}}

InBoard(cell) ==
  cell[1] \in 0..(BOARD_WIDTH - 1) /\ cell[2] \in 0..(BOARD_HEIGHT - 1)

\* the cell is inside the board and empty on it
Free(board, cell) == InBoard(cell) /\ board[cell[2] + 1][cell[1] + 1] = Empty

\* the cell is inside the board and occupied on it
Taken(board, cell) == InBoard(cell) /\ board[cell[2] + 1][cell[1] + 1] # Empty

\* C12: checkCollision(board, shape, pos) is false for every board, catalog
\* shape in any rotation and position where each occupied shape cell maps
\* inside the board onto an empty cell; it is true whenever an occupied shape
\* cell maps to x < 0, x >= WIDTH or y >= HEIGHT, or onto an occupied cell.
C12_CollisionByBoundsAndCells ==
  ev.op = "checkCollision" =>
    LET cells == CellsAt(currentPiece.shape, currentPosition)
    IN  /\ (\A c \in cells : Free(gameBoard, c)) => ev.result = FALSE
        /\ (\E c \in cells : \/ c[1] < 0
                              \/ c[1] >= BOARD_WIDTH
                              \/ c[2] >= BOARD_HEIGHT
                              \/ Taken(gameBoard, c)) => ev.result = TRUE

\* a turned piece wholly inside the board that collides with a cell of the stack
C12_Witness ==
  /\ ev.op = "checkCollision"
  /\ ev.result = TRUE
  /\ steps \in 1..3
  /\ \A c \in CellsAt(currentPiece.shape, currentPosition) : InBoard(c)

\* C13: in checkCollision an occupied shape cell in a row above the board
\* (y < 0) does not by itself cause a collision: a piece with some occupied
\* cells at y < 0, all occupied cells inside [0, WIDTH) and its other cells on
\* empty cells of the board yields false; the same piece with a cell at x < 0
\* or x >= WIDTH yields true.
C13_RowsAboveBoardExempt ==
  ev.op = "checkCollision" =>
    LET cells == CellsAt(currentPiece.shape, currentPosition)
        above == {c \in cells : c[2] < 0}
    IN  /\ (/\ above # {}
            /\ \A c \in above : c[1] \in 0..(BOARD_WIDTH - 1)
            /\ \A c \in cells \ above : Free(gameBoard, c)) => ev.result = FALSE
        /\ (/\ above # {}
            /\ \E c \in cells : c[1] < 0 \/ c[1] >= BOARD_WIDTH) => ev.result = TRUE

\* the rows of a board that are fully occupied
FullRowsOf(board) ==
  {y \in 1..BOARD_HEIGHT : \A x \in 1..BOARD_WIDTH : board[y][x] # Empty}

\* the rows of a board that have an empty cell, top to bottom
KeptRows(board) ==
  SelectSeq(board, LAMBDA row : \E x \in 1..BOARD_WIDTH : row[x] = Empty)

\* C14: for every board b, clearLines(b).linesCleared is the number of fully
\* occupied rows of b, and clearedBoard is that many empty rows followed by
\* the rows of b that are not full, in their order and with their cell kinds
\* (full rows adjacent, apart, or the top row); b itself is not modified.
C14_ClearLinesRemovesFullRows ==
  /\ [](ev.op = "clearLines" =>
          LET n == Cardinality(FullRowsOf(gameBoard))
          IN  /\ ev.result.linesCleared = n
              /\ ev.result.clearedBoard =
                   [i \in 1..n |-> [x \in 1..BOARD_WIDTH |-> Empty]] \o KeptRows(gameBoard))
  /\ [][ev'.op = "clearLines" => gameBoard' = gameBoard]_vars

\* three full rows, the top row among them, with a row that stays in between
C14_Witness ==
  /\ ev.op = "clearLines"
  /\ ev.result.linesCleared = 3
  /\ FullRowsOf(gameBoard) = {1, 2, 4}

\* C15: clearLines applied to the board clearLines returned reports no line
\* cleared and returns a board equal to the one it was given.
C15_ClearLinesIdempotent ==
  (ev.op = "clearLines" /\ ev.taken) =>
    ev.result = [clearedBoard |-> gameBoard, linesCleared |-> 0]

\* the second call, on a board from which the first removed adjacent rows
C15_Witness ==
  ev.op = "clearLines" /\ ev.taken /\ ev.removed = 4

\* the number of occupied cells of a shape
CountCells(shape) == Cardinality(CellsAt(shape, [x |-> 0, y |-> 0]))

\* C16: for each of the seven catalog shapes four applications of
\* rotateMatrix give the original matrix, and every rotation on the way has
\* the dimensions of the original and 4 occupied cells.
C16_FourTurnsAreIdentity ==
  LET original == TETROMINOES[currentPiece.type].shape
  IN  /\ steps = 4 => currentPiece.shape = original
      /\ Len(currentPiece.shape) = Len(original)
      /\ \A r \in 1..Len(original) : Len(currentPiece.shape[r]) = Len(original[r])
      /\ CountCells(currentPiece.shape) = 4

\* the fourth turn of an S, whose first turn differs from the original
C16_Witness ==
  /\ ev.op = "rotateMatrix"
  /\ steps = 4
  /\ currentPiece.type = "S"
  /\ rotateMatrix(currentPiece.shape) # currentPiece.shape

\* C17: mergeTetrominoWithBoard returns a new board and leaves its input as
\* it was; when the piece does not collide the result differs from the input
\* in exactly the occupied cells of the shape at pos, each holding the kind of
\* the tetromino; an occupied cell that maps outside the board is dropped and
\* changes no cell.
C17_MergeStampsOccupiedCells ==
  /\ [](ev.op = "mergeTetrominoWithBoard" =>
          LET cells == CellsAt(currentPiece.shape, currentPosition)
              differs == {c \in (0..(BOARD_WIDTH - 1)) \X (0..(BOARD_HEIGHT - 1)) :
                           ev.result[c[2] + 1][c[1] + 1] # gameBoard[c[2] + 1][c[1] + 1]}
          IN  /\ Len(ev.result) = BOARD_HEIGHT
              /\ \A y \in 1..BOARD_HEIGHT : Len(ev.result[y]) = BOARD_WIDTH
              /\ \A c \in (0..(BOARD_WIDTH - 1)) \X (0..(BOARD_HEIGHT - 1)) :
                   ev.result[c[2] + 1][c[1] + 1] =
                     IF c \in cells THEN currentPiece.type
                     ELSE gameBoard[c[2] + 1][c[1] + 1]
              /\ (\A c \in cells : Free(gameBoard, c)) => differs = cells)
  /\ [][ev'.op = "mergeTetrominoWithBoard" => gameBoard' = gameBoard]_vars

\* a merge of a twice turned L that drops the cell left of the board
C17_Witness ==
  /\ ev.op = "mergeTetrominoWithBoard"
  /\ currentPiece.type = "L"
  /\ steps = 2
  /\ \E c \in CellsAt(currentPiece.shape, currentPosition) : c[1] < 0
  /\ \E c \in CellsAt(currentPiece.shape, currentPosition) :
       InBoard(c) /\ ev.result[c[2] + 1][c[1] + 1] = "L"

\* the step starts a new game (initializeGame ran)
NewGameStep ==
  ev'.op = "restartGame" \/ (ev'.op = "startGame" /\ Phase(Cur) # "paused")

\* C18: in every reachable state level = floor(lines / 10) + 1; hence level
\* is 1 exactly while lines < 10, and level never decreases within one game.
C18_LevelFromLines ==
  /\ [](gameState.level = (gameState.lines \div 10) + 1)
  /\ [](gameState.level = 1 <=> gameState.lines < 10)
  /\ [][~NewGameStep => gameState'.level >= gameState.level]_vars

\* the landing that took the game from 8 lines to 12 and from level 1 to 2
C18_Witness ==
  ev.landed /\ gameState.lines = 12 /\ gameState.level = 2 /\ ev.linesCleared = 4

\* C19: each landing that clears n lines (0 <= n <= 4) adds exactly n to
\* lines and to totalLinesCleared, and every landing, with or without lines
\* cleared, ending the game or not, adds exactly 1 to totalPiecesPlaced.
C19_LandingCounts ==
  [][ev'.landed =>
       LET n == Cardinality(FullRowsOf(
                  mergeTetrominoWithBoard(gameBoard, currentPiece, currentPosition)))
       IN  /\ n \in 0..4
           /\ gameState'.lines = gameState.lines + n
           /\ gameState'.totalLinesCleared = gameState.totalLinesCleared + n
           /\ gameState'.totalPiecesPlaced = gameState.totalPiecesPlaced + 1]_vars

\* the landing that ended the game of Tower, counted as the nineteenth piece
C19_Witness ==
  ev.landed /\ ev.over /\ ev.linesCleared = 0 /\ gameState.totalPiecesPlaced = 19

\* the catalog pieces as generated: rotation 0
Catalog == {TETROMINOES[k] : k \in DOMAIN TETROMINOES}

\* C20: after a landing that does not end the game the active piece is the
\* piece previewed as next before the landing (same kind, rotation-0 catalog
\* shape), at x = floor((WIDTH - pieceWidth) / 2), y = 0 (x = 3 for I and the
\* 3-wide pieces, x = 4 for O), and a fresh next piece is generated.
C20_PromotesPreviewAtSpawn ==
  [][(ev'.landed /\ ~ev'.over) =>
       /\ nextPiece \in Catalog
       /\ currentPiece' = nextPiece
       /\ currentPosition' =
            [x |-> (BOARD_WIDTH - Len(nextPiece.shape[1])) \div 2, y |-> 0]
       /\ currentPosition'.x = (IF nextPiece.type = "O" THEN 4 ELSE 3)
       /\ nextPiece' \in Catalog]_vars

\* a 3-wide piece promoted to x = 3 with another kind previewed after it
C20_Witness ==
  /\ ev.landed /\ ~ev.over
  /\ currentPiece = TETROMINOES.T
  /\ currentPosition = [x |-> 3, y |-> 0]
  /\ nextPiece.type # currentPiece.type

PieceInputs == {"softDrop", "moveLeft", "moveRight", "rotate", "hardDrop"}

\* C21: in the Idle, Paused and GameOver states a tick and each of move-left,
\* move-right, rotate, soft-drop and hard-drop leaves the board, the active
\* piece, the position, the next piece, score, level, lines, the cumulative
\* totals, achievements and galaxyPoints unchanged.
C21_NoOpsUnlessActive ==
  /\ [][(Phase(Cur) # "active" /\ ev'.op \in PieceInputs \cup {"tick"}) =>
          UNCHANGED <<gameBoard, currentPiece, currentPosition, nextPiece, gameState>>]_vars
  /\ [](Phase(Cur) # "active" =>
          \A rnd \in generateRandomTetromino :
            LET after == gameLoop(Cur, Cur, rnd)
            IN  /\ after.gameBoard = gameBoard
                /\ after.currentPiece = currentPiece
                /\ after.currentPosition = currentPosition
                /\ after.nextPiece = nextPiece
                /\ after.gameState = gameState)

\* a hard drop while Paused, on a piece that has room to fall
C21_Witness ==
  /\ ev.op = "hardDrop"
  /\ ev.from = "paused"
  /\ HasPiece(Cur)
  /\ DropDistance(Cur) > 0

\* the period of the specification, in ms
Period(level) ==
  LET linear == 1000 - (level - 1) * 100
  IN  IF linear < 100 THEN 100 ELSE linear

\* C22: the tick period is max(100, 1000 - (level - 1) * 100) ms for every
\* level >= 1 (1000 at level 1, 100 less per level, 100 from level 10 on and
\* never less); and after a landing changes level while Active the armed
\* timer has the period of the new level before the next tick fires.
C22_PeriodFollowsLevel ==
  /\ [](\A level \in 1..MaxLevel :
          /\ getGameSpeed(level) = Period(level)
          /\ getGameSpeed(level) >= 100
          /\ level < 10 => getGameSpeed(level) = 1100 - 100 * level
          /\ level >= 10 => getGameSpeed(level) = 100)
  /\ [](Phase(Cur) = "active" => gameLoopRef = Period(gameState.level))
  /\ [][(ev'.landed /\ gameState'.level # gameState.level /\ isGameActive') =>
          gameLoopRef' = Period(gameState'.level)]_vars

\* the landing that raised the level from 4 to 5, the timer at 600 ms
C22_Witness ==
  /\ ev.landed
  /\ ev.linesCleared = 4
  /\ gameState.level = 5
  /\ gameLoopRef = 600

\* what a pause and a resume must leave as it is
GameUnchanged ==
  /\ UNCHANGED <<gameBoard, currentPiece, currentPosition, nextPiece>>
  /\ gameState'.score = gameState.score
  /\ gameState'.level = gameState.level
  /\ gameState'.lines = gameState.lines
  /\ gameState'.totalLinesCleared = gameState.totalLinesCleared
  /\ gameState'.totalPiecesPlaced = gameState.totalPiecesPlaced
  /\ gameState'.totalHardDrops = gameState.totalHardDrops

\* C23: pauseGame in Active state cancels the armed tick timer, so that no
\* tick fires while Paused, and startGame while Paused arms it again at the
\* period of the current level; board, active piece and shape, position, next
\* piece, score, level, lines and the cumulative totals are the same right
\* before the pause and right after the resume.
C23_PauseCancelsResumeRearms ==
  /\ [][(Phase(Cur) = "active" /\ ev'.op = "pauseGame") =>
          /\ isPaused' /\ isGameActive'
          /\ gameLoopRef' = NoTimer
          /\ GameUnchanged]_vars
  /\ [](Phase(Cur) = "paused" => gameLoopRef = NoTimer)
  /\ [][Phase(Cur) = "paused" => ev'.op # "tick"]_vars
  /\ [][(Phase(Cur) = "paused" /\ ev'.op \in PieceInputs) => GameUnchanged]_vars
  /\ [][(Phase(Cur) = "paused" /\ ev'.op = "startGame") =>
          /\ ~isPaused' /\ isGameActive'
          /\ gameLoopRef' = Period(gameState.level)
          /\ GameUnchanged]_vars

\* a game at level 3 resumed with its piece where it was
C23_Witness ==
  /\ ev.op = "startGame"
  /\ ev.from = "paused"
  /\ gameState.level = 3
  /\ gameLoopRef = 800
  /\ currentPosition = [x |-> 7, y |-> 16]

\* the step takes something of the running game back: score, level or lines
\* go down, or a board with cells becomes empty without a landing
GameReset ==
  \/ gameState'.score < gameState.score
  \/ gameState'.level < gameState.level
  \/ gameState'.lines < gameState.lines
  \/ /\ gameBoard # createEmptyBoard
     /\ gameBoard' = createEmptyBoard
     /\ ~ev'.landed

\* the state after a fresh-game initialization
FreshGameNext ==
  /\ gameBoard' = createEmptyBoard
  /\ gameState'.score = 0
  /\ gameState'.level = 1
  /\ gameState'.lines = 0
  /\ ~gameState'.isGameOver
  /\ currentPiece' \in Catalog
  /\ nextPiece' \in Catalog
  /\ currentPosition' = [x |-> SpawnX(currentPiece'), y |-> 0]
  /\ isGameActive' /\ ~isPaused'

\* C24 as stated: no step taken while the session is Active or Paused resets
\* the board, score, level or lines of the running game.
C24_NoResetWhileRunning ==
  [][Phase(Cur) \in {"active", "paused"} => ~GameReset]_vars

\* C24 amended: restartGame initializes a fresh game from every state, Active
\* and Paused included, and startGame does from Idle and GameOver; while the
\* session is Active or Paused no step other than restartGame resets the
\* board, score, level or lines.
C24_ResetOnlyByRestart ==
  /\ [][(Phase(Cur) \in {"active", "paused"} /\ GameReset) =>
          ev'.op = "restartGame"]_vars
  /\ [][ev'.op = "restartGame" => FreshGameNext]_vars
  /\ [][(ev'.op = "startGame" /\ Phase(Cur) \in {"idle", "over"}) =>
          FreshGameNext]_vars

\* a paused game with 140 pieces placed restarted: score, lines and board gone
C24_Witness ==
  /\ ev.op = "restartGame"
  /\ ev.from = "paused"
  /\ gameState.totalPiecesPlaced = 140
  /\ gameState.score = 0
  /\ gameState.lines = 0
  /\ gameBoard = createEmptyBoard

\* the ids of the rule table of checkAchievements
RuleTableIds ==
  {"cosmic-novice", "space-explorer", "line-clearer", "speed-runner",
   "hard-dropper", "galaxy-hero"}

\* every rule-table achievement whose threshold the stats of g meet is unlocked in g
UnlockedByStats(g) ==
  \A i \in 1..Len(g.achievements) :
    (g.achievements[i].id \in RuleTableIds /\ Unlocks(g.achievements[i].id, g))
      => g.achievements[i].unlocked

\* C25: in the GameOver state a landing leads to, every rule-table achievement
\* whose threshold the final stats meet (score, level, totalLinesCleared and
\* totalHardDrops with the effects of that landing) is unlocked.
C25_GameOverEvaluatesFinalStats ==
  [][(ev'.landed /\ ev'.over) =>
       (gameState'.isGameOver /\ UnlockedByStats(gameState'))]_vars

\* C26: an achievement that is unlocked stays unlocked in every later state,
\* whatever the step is: a tick, a landing, a hard drop, the achievement
\* effect, the GameOver transition or a new-game initialization.
C26_UnlockedStaysUnlocked ==
  [][\A i \in 1..Len(gameState.achievements) :
       gameState.achievements[i].unlocked =>
         /\ Len(gameState'.achievements) = Len(gameState.achievements)
         /\ gameState'.achievements[i].id = gameState.achievements[i].id
         /\ gameState'.achievements[i].unlocked]_vars

\* a new game begun with tetris-master and space-explorer unlocked in the
\* game before it
C26_Witness ==
  /\ ev.op = "restartGame"
  /\ gameState.score = 0
  /\ gameState.achievements[findIndex(gameState.achievements, "tetris-master")].unlocked
  /\ gameState.achievements[findIndex(gameState.achievements, "space-explorer")].unlocked

\* the points of the entries of list `after` that are unlocked and were
\* locked in list `before`
RECURSIVE PointsOfNewlyUnlocked(_, _, _)
PointsOfNewlyUnlocked(before, after, i) ==
  IF i > Len(before) THEN 0
  ELSE PointsOfNewlyUnlocked(before, after, i + 1)
       + (IF ~before[i].unlocked /\ after[i].unlocked THEN after[i].points ELSE 0)

\* C27: in every step galaxyPoints grows by exactly the points of the
\* achievements that go from locked to unlocked in that step: nothing is
\* added for an achievement that was unlocked before, in the same game or a
\* later one, and nothing of several unlocks of one step is lost.
C27_PointsAddedOncePerUnlock ==
  [][gameState'.galaxyPoints =
       gameState.galaxyPoints
       + PointsOfNewlyUnlocked(gameState.achievements, gameState'.achievements, 1)]_vars

\* tetris-master unlocked by a landing (+50), three more by the effect that
\* follows (+25 +30 +100), and a new game begun after them with the total kept
C27_Witness ==
  /\ ev.op = "restartGame"
  /\ gameState.galaxyPoints = 215
  /\ \A i \in 1..Len(gameState.achievements) :
       gameState.achievements[i].unlocked
         <=> gameState.achievements[i].id \in
               {"cosmic-novice", "tetris-master", "space-explorer",
                "line-clearer", "galaxy-hero"}

\* the persisted counter as handlePieceLanded reads it: 0 when the key is absent
TetrisCountOf(store) == IF store.tetrisCount = Absent THEN 0 ELSE store.tetrisCount

TetrisMasterUnlocked(g) ==
  g.achievements[findIndex(g.achievements, "tetris-master")].unlocked

\* C28: while tetris-master is locked, a landing that clears exactly 4 lines
\* adds 1 to the persisted tetris counter, and the landing that brings the
\* counter to 5 unlocks tetris-master and adds its 50 points to galaxyPoints;
\* a landing that clears fewer than 4 lines leaves the counter as it is.
C28_TetrisCounter ==
  [][(ev'.landed /\ ~TetrisMasterUnlocked(gameState)) =>
       IF ev'.linesCleared = 4
       THEN /\ localStorage'.tetrisCount = TetrisCountOf(localStorage) + 1
            /\ IF TetrisCountOf(localStorage) + 1 >= 5
               THEN /\ TetrisMasterUnlocked(gameState')
                    /\ ACHIEVEMENTS[findIndex(ACHIEVEMENTS, "tetris-master")].points = 50
                    /\ gameState'.galaxyPoints >= gameState.galaxyPoints + 50
                    /\ gameState'.galaxyPoints =
                         gameState.galaxyPoints
                         + PointsOfNewlyUnlocked(gameState.achievements,
                                                 gameState'.achievements, 1)
               ELSE /\ ~TetrisMasterUnlocked(gameState')
                    /\ gameState'.galaxyPoints <= gameState.galaxyPoints + 35
       ELSE localStorage'.tetrisCount = localStorage.tetrisCount]_vars

\* the fifth four-line clear: counter 4 -> 5, tetris-master unlocked, 10 -> 60
C28_Witness ==
  /\ ev.landed
  /\ ev.linesCleared = 4
  /\ localStorage.tetrisCount = 5
  /\ TetrisMasterUnlocked(gameState)
  /\ gameState.galaxyPoints = 60

\* C29: a new-game initialization sets the persisted tetris counter to 0 when
\* tetris-master is locked at that moment and leaves it as it is when
\* tetris-master is unlocked, so four-line clears of an earlier game do not
\* count toward the achievement in the next one.
C29_NewGameResetsTetrisCounter ==
  [][NewGameStep =>
       localStorage'.tetrisCount =
         IF TetrisMasterUnlocked(gameState) THEN localStorage.tetrisCount ELSE 0]_vars

\* a game with four four-line clears restarted before the fifth: counter 0
C29_Witness ==
  /\ ev.op = "restartGame"
  /\ gameState.totalPiecesPlaced = 140
  /\ gameState.totalLinesCleared = 46
  /\ ~TetrisMasterUnlocked(gameState)
  /\ localStorage.tetrisCount = 0

\* C30: whatever the interleaving of ticks and inputs, a key handled right
\* after a tick on the same render included, a step lands the active piece
\* at most once: totalPiecesPlaced grows by 1 in a step that lands it and by
\* nothing in any other step, and the lines of its landing are counted once.
C30_EachPieceLandedOnce ==
  [][IF ev'.landed
     THEN /\ gameState'.totalPiecesPlaced = gameState.totalPiecesPlaced + 1
          /\ gameState'.totalLinesCleared =
               gameState.totalLinesCleared + ev'.linesCleared
          /\ gameBoard' = LandedBoard(Cur).clearedBoard
          /\ ~ev'.over => currentPiece' = nextPiece
     ELSE gameState'.totalPiecesPlaced = gameState.totalPiecesPlaced]_vars

\* a stored number as the session writes it: decimal digits only
WellFormedNumber(item) ==
  /\ Truthy(item, <<>>)
  /\ \A i \in 1..Len(item.text) : IsDigit(item.text[i])

\* a stored achievement list as the session writes it
WellFormedAchievements(item) ==
  /\ Truthy(item, "")
  /\ JSONparse(item.text).ok
  /\ JSONparse(item.text).value = StoredAchievements

\* a stored stats object as the session writes it
WellFormedStats(item) ==
  /\ Truthy(item, "")
  /\ JSONparse(item.text).ok
  /\ JSONparse(item.text).value = StoredStats

IsNumber(value) == value.type = "number" /\ ~value.nan

\* C31: once the hook is mounted, a key whose stored value is absent or
\* malformed has given its default (highScore 0, galaxyPoints 0, the catalog
\* list with every entry locked, the three totals 0), and every numeric field
\* of the state is a number.
C31_DefaultsForAbsentOrMalformed ==
  ev.op # "none" =>
    /\ ~WellFormedNumber(localStorage.highscore) => gameState.highScore = Num(0)
    /\ ~WellFormedNumber(localStorage.galaxyPoints) => gameState.galaxyPoints = Num(0)
    /\ ~WellFormedAchievements(localStorage.achievements) =>
         gameState.achievements = JSArray(ACHIEVEMENTS)
    /\ ~WellFormedStats(localStorage.stats) =>
         /\ gameState.totalLinesCleared = Num(0)
         /\ gameState.totalPiecesPlaced = Num(0)
         /\ gameState.totalHardDrops = Num(0)
    /\ IsNumber(gameState.highScore)
    /\ IsNumber(gameState.galaxyPoints)
    /\ IsNumber(gameState.totalLinesCleared)
    /\ IsNumber(gameState.totalPiecesPlaced)
    /\ IsNumber(gameState.totalHardDrops)

\* the three totals of g, as the record saveStats stores
TotalsOf(g) ==
  [totalLinesCleared |-> g.totalLinesCleared,
   totalPiecesPlaced |-> g.totalPiecesPlaced,
   totalHardDrops |-> g.totalHardDrops]

\* C32: the landing that ends the game stores the three cumulative totals as
\* they are in memory after it, its own piece, lines and hard drop counted,
\* and in the GameOver state the stored totals equal the totals in memory.
C32_GameOverPersistsTotals ==
  /\ [][(ev'.landed /\ ev'.over) =>
          /\ localStorage'.stats = TotalsOf(gameState')
          /\ gameState'.totalPiecesPlaced = gameState.totalPiecesPlaced + 1
          /\ gameState'.totalHardDrops =
               gameState.totalHardDrops + (IF ev'.dropDistance > 0 THEN 1 ELSE 0)]_vars
  /\ [](Phase(Cur) = "over" => localStorage.stats = TotalsOf(gameState))

\* the fiftieth hard drop ends the game: 78 pieces and 50 hard drops stored
C32_Witness ==
  /\ Phase(Cur) = "over"
  /\ ev.op = "hardDrop"
  /\ ev.dropDistance = 1
  /\ localStorage.stats =
       [totalLinesCleared |-> 0, totalPiecesPlaced |-> 78, totalHardDrops |-> 50]

\* C33: while the session is Active or Paused, every occupied cell of the
\* active piece at its position is a cell inside the board that is empty on
\* the board, so checkCollision is false there; and a landing merges a piece
\* whose cells are all inside the board, so that none is skipped by the bounds
\* test of the merge.
C33_ActivePieceIsCollisionFree ==
  /\ [](isGameActive =>
          /\ HasPiece(Cur)
          /\ \A cell \in CellsAt(currentPiece.shape, currentPosition) :
               Free(gameBoard, cell)
          /\ ~checkCollision(gameBoard, currentPiece.shape, currentPosition))
  /\ [][ev'.landed =>
          \A cell \in CellsAt(currentPiece.shape, currentPosition) :
            /\ InBoard(cell)
            /\ ev'.linesCleared = 0 =>
                 gameBoard'[cell[2] + 1][cell[1] + 1] = currentPiece.type]_vars

\* an upright I in the last column, held there by the wall on a move right
C33_Witness ==
  /\ isGameActive /\ ~isPaused
  /\ ev.op = "moveRight"
  /\ ev.dx = 0
  /\ \E cell \in CellsAt(currentPiece.shape, currentPosition) :
       cell[1] = BOARD_WIDTH - 1

\* C34: while Active, a move, a rotation or a soft drop that does not land
\* the piece leaves the armed interval as it is; an interval is set anew only
\* by start, resume, restart and a step that changes the level.
C34_InputsLeaveTimerAlone ==
  /\ [][(Phase(Cur) = "active"
         /\ ev'.op \in {"moveLeft", "moveRight", "rotate", "softDrop"}
         /\ ~ev'.landed) => ~ev'.rearmed]_vars
  /\ [][ev'.rearmed =>
          \/ ev'.op \in {"startGame", "restartGame"}
          \/ gameState'.level # gameState.level]_vars

C36_NoFullRowOnBoard ==
  /\ Len(gameBoard) = BOARD_HEIGHT
  /\ \A y \in 1..BOARD_HEIGHT :
       /\ Len(gameBoard[y]) = BOARD_WIDTH
       /\ \E x \in 1..BOARD_WIDTH : gameBoard[y][x] = Empty

\* a landing has completed four rows and the game goes on without them
C36_Witness ==
  /\ ev.landed
  /\ ev.linesCleared = 4
  /\ isGameActive
  /\ \A x \in 1..BOARD_WIDTH : gameBoard[BOARD_HEIGHT][x] = Empty

\* C37: a landing clears between 0 and 4 lines, and a landing that adds
\* lines to lines and totalLinesCleared adds line-clear points too: the score
\* grows by more than the two points per row of a hard drop's fall.
C37_EveryClearScores ==
  [][ev'.landed =>
       /\ ev'.linesCleared \in 0..4
       /\ gameState'.lines = gameState.lines + ev'.linesCleared
       /\ gameState'.totalLinesCleared = gameState.totalLinesCleared + ev'.linesCleared
       /\ ev'.linesCleared > 0 =>
            /\ LinePoints(ev'.linesCleared, gameState.level) > 0
            /\ gameState'.score >
                 gameState.score + 2 * ev'.dropDistance]_vars

\* three rows of soft drop, then a landing that cleared four lines at level 1
\* and scored 800 for them
C37_Witness ==
  /\ ev.landed
  /\ ev.linesCleared = 4
  /\ gameState.lines = 12
  /\ gameState.score = 1300 + 3 + 800

\* the number of occupied cells of a board
OccupiedCells(board) ==
  Cardinality({cell \in (1..BOARD_WIDTH) \X (1..BOARD_HEIGHT) :
                 board[cell[2]][cell[1]] # Empty})

\* C38: a new game begins with no occupied cell and lines 0; a landing adds
\* the 4 cells of its piece, takes BOARD_WIDTH cells per line it clears and
\* adds those lines to lines; no other step changes the cells or lines.  So
\* within a game the occupied cells are 4 times the pieces landed in it minus
\* BOARD_WIDTH times lines, and cells plus BOARD_WIDTH times lines is a
\* multiple of 4 in every state.
C38_CellsBalance ==
  /\ [][IF NewGameStep
        THEN OccupiedCells(gameBoard') = 0 /\ gameState'.lines = 0
        ELSE IF ev'.landed
        THEN /\ OccupiedCells(gameBoard') =
                  OccupiedCells(gameBoard) + 4 - BOARD_WIDTH * ev'.linesCleared
             /\ gameState'.lines = gameState.lines + ev'.linesCleared
             /\ gameState'.totalPiecesPlaced = gameState.totalPiecesPlaced + 1
        ELSE /\ OccupiedCells(gameBoard') = OccupiedCells(gameBoard)
             /\ gameState'.lines = gameState.lines
             /\ gameState'.totalPiecesPlaced = gameState.totalPiecesPlaced]_vars
  /\ []((OccupiedCells(gameBoard) + BOARD_WIDTH * gameState.lines) % 4 = 0)

\* the second piece of a game landed on the first: 8 cells, no line
C38_Witness ==
  /\ ev.landed
  /\ ev.linesCleared = 0
  /\ gameState.lines = 0
  /\ gameState.totalPiecesPlaced = 2
  /\ OccupiedCells(gameBoard) = 8

\* the points of the unlocked entries of a list
RECURSIVE UnlockedPoints(_, _)
UnlockedPoints(achievements, i) ==
  IF i > Len(achievements) THEN 0
  ELSE UnlockedPoints(achievements, i + 1)
       + (IF achievements[i].unlocked THEN achievements[i].points ELSE 0)

\* C40: after a step that unlocks an achievement, the stored galaxy points
\* (0 when the key is absent) are the sum of the points of the achievements
\* stored as unlocked, and equal galaxyPoints in memory, whichever path made
\* the unlock: checkAchievements, the fifth four-line clear or the fiftieth
\* hard drop.
C40_StoredPointsMatchStoredUnlocks ==
  [][PointsOfNewlyUnlocked(gameState.achievements, gameState'.achievements, 1) > 0 =>
       /\ loadSavedGalaxyPoints(localStorage') =
            UnlockedPoints(loadSavedAchievements(localStorage'), 1)
       /\ loadSavedGalaxyPoints(localStorage') = gameState'.galaxyPoints]_vars

\* C39: with the interval left to fire and no input, pause or restart, an
\* Active, unpaused session reaches GameOver, whatever pieces are generated.
C39_UnattendedGameEnds ==
  (isGameActive /\ ~isPaused) ~> (gameState.isGameOver /\ ~isGameActive)

\* a tick has landed the piece that ended a game of at least twelve pieces
C39_Witness ==
  /\ ev.op = "tick"
  /\ ev.landed /\ ev.over
  /\ gameState.isGameOver
  /\ gameState.totalPiecesPlaced >= 12
  /\ gameState.totalPiecesPlaced < 77

====
